---- MODULE Spec2Model ----
(***************************************************************************)
(* A model of the action-intention client node: the sharing orchestrator   *)
(* (App.ShareIntention and its payload builder), the hybrid crypto         *)
(* primitives, the inbound processing of one envelope, and the reconciler  *)
(* (Reconciler.ProcessPayload) over the in-memory stores.                  *)
(*                                                                         *)
(* Cryptography is symbolic: a ciphertext, a wrapped key or a signature is *)
(* a term that records what it was made from, and opening it succeeds      *)
(* exactly when the right key, nonce and AAD are presented.                *)
(***************************************************************************)
EXTENDS Integers, Sequences, FiniteSets, TLC

\* ------------------------------------------------------------------ bounds

\* ShareIntention calls in one behaviour.
MaxShares == 1
\* Field replacements the relay performs on the envelope in transit.
MaxTamper == 1
\* Entities held by each local store of the receiving node.
MaxLocal == 2
\* ProcessPayload calls in one behaviour of the reconciler specification.
MaxRuns == 2
\* AddIntention calls accepted by one intention service.
MaxIntentions == 2
\* Goroutines that call AddMemberToGroup, once each.
MaxTasks == 3
\* Goroutines that call ShareIntention at the same time, once each.
MaxCallers == 2
\* Locations created through one location service.
MaxLocations == 2

\* ------------------------------------------------------------ small helpers

EmptyMap == << >>

\* m[k] = v, as a Go map assignment: an existing key is overwritten.
Put(m, k, v) == [x \in (DOMAIN m) \cup {k} |-> IF x = k THEN v ELSE m[x]]

\* Every order in which the elements of a finite set can be listed.
Perms(S) ==
    {q \in [1..Cardinality(S) -> S] :
        \A i, j \in 1..Cardinality(S) : q[i] = q[j] => i = j}

Abs(n) == IF n < 0 THEN 0 - n ELSE n

\* ------------------------------------------------------------- identifiers

\* uuid.Nil, the value uuid.Parse returns beside an error.
NilUuid == "nil"
NoGlobal == "no-global"   \* a nil *string GlobalID
NoHandle == "no-handle"   \* a nil *string Handle
NoUser == "no-user"       \* a nil *string UserID
NoCoord == 0 - 1          \* a nil *float64 Lat or Lon

\* Every uuid the model uses.
Uuids ==
    {"sl1", "sl2", "sl9", "sp1", "sp2", "sp9", "sg1", "sg9", "i1", "i2", "i3", "i9",
     "f1", "f2", "f3", "f4", "fp1", "fp2", "fp3",
     "l1", "l2", "l3", "l4", "l5", "l6", "p1", "p2", "p3", "p4"}

\* uuid.UUID.String(): the canonical text of an id.
UuidString(u) == "uuid-" \o u

\* uuid.Parse: the id a text denotes, uuid.Nil (with an error the reconciler
\* drops) for a text that denotes none.
UuidParse(s) ==
    IF \E u \in Uuids : UuidString(u) = s
    THEN CHOOSE u \in Uuids : UuidString(u) = s
    ELSE NilUuid

\* strings.ToLower on the names, categories and handles of the model.
ToLower(s) ==
    CASE s = "Cafe" -> "cafe"
      [] s = "PARK" -> "park"
      [] s = "Park" -> "park"
      [] s = "Food" -> "food"
      [] s = "Bob" -> "bob"
      [] s = "BOB@X" -> "bob@x"
      [] OTHER -> s

\* strings.EqualFold.
EqualFold(a, b) == ToLower(a) = ToLower(b)

\* ---------------------------------------------------------------- matchers

MatchNone == "NONE"
MatchPossible == "POSSIBLE"
MatchExact == "EXACT"

\* The matcher thresholds, 0.05 km and 0.5 km, in metres.
ExactMetres == 50
NoneMetres == 500

\* haversine, on coordinates given in metres on a local grid (the scale at
\* which the thresholds decide): the square of the distance, in metres^2.
HaversineSq(lat1, lon1, lat2, lon2) ==
    (lat2 - lat1) * (lat2 - lat1) + (lon2 - lon1) * (lon2 - lon1)

\* A mutant of LocationMatch: a distance of exactly 50 metres is no longer
\* EXACT, and the category is looked at when the local side has no
\* coordinates only.
LocationMatchOffByOne(m, local) ==
    IF ~EqualFold(m.name, local.matcher.name) THEN MatchNone
    ELSE IF /\ m.lat # NoCoord /\ m.lon # NoCoord
            /\ local.matcher.lat # NoCoord /\ local.matcher.lon # NoCoord
         THEN LET d2 == HaversineSq(m.lat, m.lon, local.matcher.lat, local.matcher.lon)
              IN  IF d2 < ExactMetres * ExactMetres THEN MatchExact
                  ELSE IF d2 > NoneMetres * NoneMetres THEN MatchNone
                  ELSE MatchPossible
    ELSE IF EqualFold(m.category, local.matcher.category) THEN MatchExact
    ELSE MatchPossible

\* A mutant of LocationMatch: a distance of exactly 500 metres is NONE.
LocationMatchNoneInclusive(m, local) ==
    IF ~EqualFold(m.name, local.matcher.name) THEN MatchNone
    ELSE IF /\ m.lat # NoCoord /\ m.lon # NoCoord
            /\ local.matcher.lat # NoCoord /\ local.matcher.lon # NoCoord
         THEN LET d2 == HaversineSq(m.lat, m.lon, local.matcher.lat, local.matcher.lon)
              IN  IF d2 <= ExactMetres * ExactMetres THEN MatchExact
                  ELSE IF d2 >= NoneMetres * NoneMetres THEN MatchNone
                  ELSE MatchPossible
    ELSE IF EqualFold(m.category, local.matcher.category) THEN MatchExact
    ELSE MatchPossible

\* LocationMatcher.Match: m is the incoming matcher, local a local Location.
LocationMatch(m, local) ==
    IF ~EqualFold(m.name, local.matcher.name) THEN MatchNone
    ELSE IF /\ m.lat # NoCoord /\ m.lon # NoCoord
            /\ local.matcher.lat # NoCoord /\ local.matcher.lon # NoCoord
         THEN LET d2 == HaversineSq(m.lat, m.lon, local.matcher.lat, local.matcher.lon)
              IN  IF d2 <= ExactMetres * ExactMetres THEN MatchExact
                  ELSE IF d2 > NoneMetres * NoneMetres THEN MatchNone
                  ELSE MatchPossible
    ELSE IF EqualFold(m.category, local.matcher.category) THEN MatchExact
    ELSE MatchPossible

\* A mutant of PersonMatch: the name is compared first, so equal handles
\* under different names no longer match.
PersonMatchNameFirst(m, local) ==
    IF ~EqualFold(m.name, local.matcher.name) THEN MatchNone
    ELSE IF /\ m.handle # NoHandle /\ local.matcher.handle # NoHandle
            /\ EqualFold(m.handle, local.matcher.handle)
         THEN MatchExact
    ELSE MatchPossible

\* PersonMatcher.Match: m is the incoming matcher, local a local Person.
PersonMatch(m, local) ==
    IF /\ m.handle # NoHandle /\ local.matcher.handle # NoHandle
       /\ EqualFold(m.handle, local.matcher.handle)
    THEN MatchExact
    ELSE IF EqualFold(m.name, local.matcher.name) THEN MatchPossible
    ELSE MatchNone

\* ------------------------------------------------------------ domain model

\* locations.Location (created_at is left out: nothing reads it).
Location(id, name, category, globalID, mname, mcategory, lat, lon, type, userID) ==
    [id |-> id, name |-> name, category |-> category, globalID |-> globalID,
     matcher |-> [name |-> mname, category |-> mcategory, lat |-> lat, lon |-> lon],
     type |-> type, userID |-> userID]

\* people.Person.
Person(id, name, globalID, mname, handle) ==
    [id |-> id, name |-> name, globalID |-> globalID,
     matcher |-> [name |-> mname, handle |-> handle], userID |-> NoUser]

\* people.Group.
Group(id, name, memberIDs) == [id |-> id, name |-> name, memberIDs |-> memberIDs]

\* intentions.LocationTarget and intentions.ProximityTarget, and the nil
\* Target a failed decode leaves in the slice.
LocationTarget(locationID) ==
    [type |-> "Location", locationID |-> locationID, personIDs |-> << >>, groupIDs |-> << >>]
ProximityTarget(personIDs, groupIDs) ==
    [type |-> "Proximity", locationID |-> NilUuid, personIDs |-> personIDs,
     groupIDs |-> groupIDs]
NilTarget ==
    [type |-> "nil", locationID |-> NilUuid, personIDs |-> << >>, groupIDs |-> << >>]

\* intentions.Intention.
Intention(id, user, action, targets, startTime, endTime) ==
    [id |-> id, user |-> user, action |-> action, targets |-> targets,
     startTime |-> startTime, endTime |-> endTime]

ZeroIntention == Intention(NilUuid, "", "", << >>, 0, 0)

\* sharing.SharedPayload: one intention and three maps keyed by uuid text.
SharedPayload(intention, locations, people, groups) ==
    [intention |-> intention, locations |-> locations, people |-> people,
     groups |-> groups]

ZeroPayload == SharedPayload(ZeroIntention, EmptyMap, EmptyMap, EmptyMap)

\* ------------------------------------------------------------------ crypto

\* Key material as PEM bytes: the block type and the key pair it belongs to.
PrivPEM(k) == [block |-> "RSA PRIVATE KEY", pair |-> k]
PubPEM(k) == [block |-> "RSA PUBLIC KEY", pair |-> k]
\* Bytes that hold no PEM block (also the nil slice of a failed fetch).
BadPEM == [block |-> "", pair |-> "none"]

NoNonce == 0 - 2

\* encrypted_data: the 12 leading bytes read as the nonce, then what
\* gcm.Seal made: the AES key, nonce, plaintext and AAD it sealed.
GcmData(nonce, aesKey, sealNonce, plaintext, aad) ==
    [nonce |-> nonce, key |-> aesKey, sealNonce |-> sealNonce, pt |-> plaintext,
     aad |-> aad]

\* encrypted_symmetric_key: the AES key wrapped by RSA-OAEP for a key pair.
OaepKey(pair, aesKey) == [pair |-> pair, key |-> aesKey]

\* A PKCS#1 v1.5 signature: the key pair that signed and the message whose
\* SHA-256 digest it signed.
Signature(pair, msg) == [pair |-> pair, msg |-> msg]

\* JSON text: of a SharedPayload, or bytes that are no JSON document.
JsonBytes(payload) == [json |-> TRUE, payload |-> payload]
NotJson == [json |-> FALSE, payload |-> ZeroPayload]

NoData == GcmData(NoNonce, 0 - 2, NoNonce, NotJson, "")
NoKey == OaepKey("none", 0 - 2)
NoSignature == Signature("none", NoData)

\* crypto.Encrypt(data, aad, publicKeyPEM); fresh is the random AES key and
\* nonce of this call.
Encrypt(data, aad, publicKeyPEM, fresh) ==
    IF publicKeyPEM.block # "RSA PUBLIC KEY"
    THEN [err |-> TRUE, encryptedKey |-> NoKey, encryptedData |-> NoData]
    ELSE [err |-> FALSE,
          encryptedKey |-> OaepKey(publicKeyPEM.pair, fresh),
          encryptedData |-> GcmData(fresh, fresh, fresh, data, aad)]

\* A mutant of Decrypt: gcm.Open without the additional authenticated data.
DecryptIgnoringAad(encryptedKey, encryptedData, aad, privateKeyPEM) ==
    IF privateKeyPEM.block # "RSA PRIVATE KEY"
    THEN [err |-> TRUE, plaintext |-> NotJson]
    ELSE IF encryptedKey.pair # privateKeyPEM.pair
    THEN [err |-> TRUE, plaintext |-> NotJson]
    ELSE IF encryptedData.nonce = NoNonce
    THEN [err |-> TRUE, plaintext |-> NotJson]
    ELSE IF \/ encryptedData.key # encryptedKey.key
            \/ encryptedData.sealNonce # encryptedData.nonce
    THEN [err |-> TRUE, plaintext |-> NotJson]
    ELSE [err |-> FALSE, plaintext |-> encryptedData.pt]

\* crypto.Decrypt(encryptedKey, encryptedData, aad, privateKeyPEM).
Decrypt(encryptedKey, encryptedData, aad, privateKeyPEM) ==
    IF privateKeyPEM.block # "RSA PRIVATE KEY"
    THEN [err |-> TRUE, plaintext |-> NotJson]          \* no PEM block
    ELSE IF encryptedKey.pair # privateKeyPEM.pair
    THEN [err |-> TRUE, plaintext |-> NotJson]          \* rsa.DecryptOAEP
    ELSE IF encryptedData.nonce = NoNonce
    THEN [err |-> TRUE, plaintext |-> NotJson]          \* ciphertext too short
    ELSE IF \/ encryptedData.key # encryptedKey.key
            \/ encryptedData.sealNonce # encryptedData.nonce
            \/ encryptedData.aad # aad
    THEN [err |-> TRUE, plaintext |-> NotJson]          \* gcm.Open
    ELSE [err |-> FALSE, plaintext |-> encryptedData.pt]

\* crypto.Sign(msg, privateKeyPEM).
Sign(msg, privateKeyPEM) ==
    IF privateKeyPEM.block # "RSA PRIVATE KEY"
    THEN [err |-> TRUE, signature |-> NoSignature]
    ELSE [err |-> FALSE, signature |-> Signature(privateKeyPEM.pair, msg)]

\* A mutant of Verify: any signature is accepted under a well-formed key.
VerifyAnything(msg, sig, publicKeyPEM) == publicKeyPEM.block = "RSA PUBLIC KEY"

\* crypto.Verify(msg, sig, publicKeyPEM): TRUE when it returns nil.
Verify(msg, sig, publicKeyPEM) ==
    /\ publicKeyPEM.block = "RSA PUBLIC KEY"
    /\ sig.pair = publicKeyPEM.pair
    /\ sig.msg = msg

\* -------------------------------------------------------------------- JSON

\* json.Marshal of a SharedPayload.
JsonMarshal(payload) == JsonBytes(payload)

\* A mutant of JsonUnmarshal: a decoder that leaves nothing behind when it
\* reports an error.
JsonUnmarshalAllOrNothing(bytes) ==
    IF ~bytes.json \/ Len(bytes.payload.intention.targets) > 0
    THEN [err |-> TRUE, payload |-> ZeroPayload]
    ELSE [err |-> FALSE, payload |-> bytes.payload]

\* json.Unmarshal into a SharedPayload. Target is an interface with methods
\* and no UnmarshalJSON: each element of "Targets" is an object that cannot
\* be decoded into it, so the decoder records an UnmarshalTypeError, leaves
\* a nil Target in its place and goes on with the rest of the document.
JsonUnmarshal(bytes) ==
    IF ~bytes.json
    THEN [err |-> TRUE, payload |-> ZeroPayload]
    ELSE LET p == bytes.payload
             n == Len(p.intention.targets)
         IN  [err |-> n > 0,
              payload |->
                  [p EXCEPT !.intention.targets = [i \in 1..n |-> NilTarget]]]

\* --------------------------------------------------------------- variables

VARIABLES
    intentionStore,      \* the sending App: intentions.InMemoryStore.intentions
    locationStore,       \* the sending App: locations.InMemoryStore.locations
    personStore,         \* the sending App: people.InMemoryStore.people
    groupStore,          \* the sending App: people.InMemoryStore.groups
    share,               \* the frame of the ShareIntention call in progress
    trace,               \* what that call has called so far, in order
    shares,              \* ShareIntention calls made
    nextFresh,           \* the next unused random AES key and nonce
    wire,                \* the relay: the envelope in transit
    sent,                \* the envelope last handed to EnvelopeSender.Send
    inbound,             \* the frame of the inbound processing of one envelope
    localLocationStore,  \* the receiving node: Reconciler.localLocationStore
    localPersonStore,    \* the receiving node: Reconciler.localPersonStore
    rec,                 \* the frame of the ProcessPayload call in progress
    prev,                \* the result of the ProcessPayload call before it
    dirty,               \* a local store was written since that call started
    runs,                \* ProcessPayload calls made by the reconciler's caller
    call,                \* the last call on the intention service or store
    tasks,               \* the frames of the AddMemberToGroup calls, by goroutine
    mutex                \* the holder of the people store's RWMutex

senderVars == <<intentionStore, locationStore, personStore, groupStore>>
shareVars == <<share, trace, shares, nextFresh, sent>>
localVars == <<localLocationStore, localPersonStore>>
recVars == <<rec, prev, dirty, runs>>
callVars == <<call, tasks, mutex>>
vars == <<senderVars, shareVars, wire, inbound, localVars, recVars, callVars>>

\* No call made on the intention service; no goroutine in AddMemberToGroup;
\* the mutex free.
NoCall == [op |-> "none"]
NoTasks == << >>
NoTask == 0

\* ------------------------------------------------------------------ stores

\* A map lookup by id on a store held as the set of its values.
Has(store, id) == \E e \in store : e.id = id
Get(store, id) == CHOOSE e \in store : e.id = id

\* store[e.ID] = e.
StorePut(store, e) == {x \in store : x.id # e.id} \cup {e}

\* intentions.QuerySpec: nil filters are NoUser and NoTime.
NoTime == 0 - 1
QuerySpec(user, activeAt) == [user |-> user, activeAt |-> activeAt]

\* A mutant of Query: an intention is no longer active at its end time.
QueryEndExclusive(store, spec) ==
    {intent \in store :
        /\ ~(spec.user # NoUser /\ intent.user # spec.user)
        /\ ~(/\ spec.activeAt # NoTime
             /\ (spec.activeAt < intent.startTime \/ spec.activeAt >= intent.endTime))}

\* intentions.InMemoryStore.Query: the intentions that pass every set filter.
Query(store, spec) ==
    {intent \in store :
        /\ ~(spec.user # NoUser /\ intent.user # spec.user)
        /\ ~(/\ spec.activeAt # NoTime
             /\ (spec.activeAt < intent.startTime \/ spec.activeAt > intent.endTime))}

\* locations.InMemoryStore.FindByGlobalID and people.InMemoryStore.FindByGlobalID:
\* the entities the map iteration can return; none means the not-found error.
FindByGlobalID(store, globalID) ==
    {e \in store : e.globalID # NoGlobal /\ e.globalID = globalID}

\* locations.InMemoryStore.ListAllForMatching and its people twin: the
\* slices the map iteration can build.
ListAllForMatching(store) == Perms(store)

\* ---------------------------------------------------------- payload builder

\* The ProximityTarget person loop of buildSharedPayload.
RECURSIVE GatherPeople(_, _, _)
GatherPeople(personIDs, j, people) ==
    IF j > Len(personIDs) THEN people
    ELSE GatherPeople(personIDs, j + 1,
            IF Has(personStore, personIDs[j])
            THEN Put(people, UuidString(personIDs[j]), Get(personStore, personIDs[j]))
            ELSE people)

\* The ProximityTarget group loop of buildSharedPayload.
RECURSIVE GatherGroups(_, _, _)
GatherGroups(groupIDs, j, groups) ==
    IF j > Len(groupIDs) THEN groups
    ELSE GatherGroups(groupIDs, j + 1,
            IF Has(groupStore, groupIDs[j])
            THEN Put(groups, UuidString(groupIDs[j]), Get(groupStore, groupIDs[j]))
            ELSE groups)

\* The target loop of buildSharedPayload.
RECURSIVE GatherTargets(_, _, _)
GatherTargets(targets, i, payload) ==
    IF i > Len(targets) THEN payload
    ELSE LET t == targets[i]
             next ==
                 CASE t.type = "Location" ->
                        IF Has(locationStore, t.locationID)
                        THEN [payload EXCEPT !.locations =
                                Put(@, UuidString(t.locationID),
                                    Get(locationStore, t.locationID))]
                        ELSE payload
                   [] t.type = "Proximity" ->
                        [payload EXCEPT
                            !.people = GatherPeople(t.personIDs, 1, @),
                            !.groups = GatherGroups(t.groupIDs, 1, @)]
                   [] OTHER -> payload
         IN  GatherTargets(targets, i + 1, next)

\* A mutant of BuildSharedPayload: a referenced entity that is missing makes
\* the build fail.
BuildSharedPayloadStrict(intentionID) ==
    LET allIntentions == Query(intentionStore, QuerySpec(NoUser, NoTime))
        complete(t) ==
            CASE t.type = "Location" -> Has(locationStore, t.locationID)
              [] t.type = "Proximity" ->
                    /\ \A j \in 1..Len(t.personIDs) : Has(personStore, t.personIDs[j])
                    /\ \A j \in 1..Len(t.groupIDs) : Has(groupStore, t.groupIDs[j])
              [] OTHER -> TRUE
    IN  IF ~Has(allIntentions, intentionID)
        THEN [err |-> TRUE, payload |-> ZeroPayload]
        ELSE LET targetIntention == Get(allIntentions, intentionID)
             IN  IF \E i \in 1..Len(targetIntention.targets) :
                        ~complete(targetIntention.targets[i])
                 THEN [err |-> TRUE, payload |-> ZeroPayload]
                 ELSE [err |-> FALSE,
                       payload |-> GatherTargets(targetIntention.targets, 1,
                           SharedPayload(targetIntention, EmptyMap, EmptyMap, EmptyMap))]

\* App.buildSharedPayload(intentionID): err when the intention is not among
\* the results of the unfiltered Query.
BuildSharedPayload(intentionID) ==
    LET allIntentions == Query(intentionStore, QuerySpec(NoUser, NoTime))
    IN  IF ~Has(allIntentions, intentionID)
        THEN [err |-> TRUE, payload |-> ZeroPayload]
        ELSE LET targetIntention == Get(allIntentions, intentionID)
             IN  [err |-> FALSE,
                  payload |-> GatherTargets(targetIntention.targets, 1,
                      SharedPayload(targetIntention, EmptyMap, EmptyMap, EmptyMap))]

\* ------------------------------------------------- the sending node's data

\* What the sending node holds: a user location and a shared one, two
\* people, a group, and three intentions, the third of which refers only
\* to entities the stores do not hold.
SenderCafe ==
    Location("sl1", "Cafe", "Food", NoGlobal, "Cafe", "Food", NoCoord, NoCoord,
             "USER", "urn:alice")
SenderPark ==
    Location("sl2", "Park", "Rec", "g-park", "Park", "Rec", NoCoord, NoCoord,
             "SHARED", NoUser)
SenderBob == Person("sp1", "Bob", NoGlobal, "Bob", "bob@x")
SenderCarol == Person("sp2", "Carol", NoGlobal, "Carol", NoHandle)
SenderFriends == Group("sg1", "Friends", <<"sp1", "sp2">>)
SenderIntentions ==
    {Intention("i1", "urn:alice", "Get Coffee", <<LocationTarget("sl1")>>, 1, 2),
     Intention("i2", "urn:alice", "Meet",
               <<ProximityTarget(<<"sp1">>, <<"sg1">>), LocationTarget("sl2")>>, 1, 1),
     Intention("i3", "urn:alice", "Walk",
               <<LocationTarget("sl9"), ProximityTarget(<<"sp9">>, <<"sg9">>)>>, 2, 3)}

\* The arguments ShareIntention is called with.
SenderIds == {"urn:alice", "eve"}
RecipientIds == {"bob", "alice:bob", "mallory"}
IntentionIds == {"i1", "i2", "i3", "i9"}
PrivateKeys == {PrivPEM("kA"), PrivPEM("kE"), BadPEM}

\* The key service: the public key stored for each user id. "mallory" has
\* stored bytes that are no PEM block; "alice:bob" and "urn" have stored none.
KeyDirectory ==
    [u \in {"urn:alice", "bob", "eve", "mallory"} |->
        CASE u = "urn:alice" -> PubPEM("kA")
          [] u = "bob" -> PubPEM("kB")
          [] u = "eve" -> PubPEM("kE")
          [] OTHER -> BadPEM]

\* KeyFetcher.GetKey(userID) when the service answers: the key, or not found.
GetKey(userID) ==
    IF userID \in DOMAIN KeyDirectory
    THEN [err |-> FALSE, key |-> KeyDirectory[userID]]
    ELSE [err |-> TRUE, key |-> BadPEM]

\* ---------------------------------------------------------- secure envelope

\* transport.SecureEnvelope.
SecureEnvelope(senderID, recipientID, encryptedKey, encryptedData, signature) ==
    [senderID |-> senderID, recipientID |-> recipientID,
     encryptedSymmetricKey |-> encryptedKey, encryptedData |-> encryptedData,
     signature |-> signature]

NoEnvelope == SecureEnvelope("", "", NoKey, NoData, NoSignature)

\* The additional authenticated data of a header: senderID + ":" + recipientID.
Aad(senderID, recipientID) == senderID \o ":" \o recipientID

\* ---------------------------------------------------------- ShareIntention

IdleShare ==
    [pc |-> "idle", senderID |-> "", recipientID |-> "", intentionID |-> NilUuid,
     privateKeyPEM |-> BadPEM, payloadBytes |-> NotJson, recipientPubKey |-> BadPEM,
     encryptedKey |-> NoKey, encryptedData |-> NoData, signature |-> NoSignature,
     err |-> ""]

\* ops: the calls made, in order; failed: the call that returned an error.
NoTrace == [ops |-> << >>, keyIds |-> << >>, envelopes |-> << >>, failed |-> ""]

NoSent == [valid |-> FALSE, envelope |-> NoEnvelope, payloadBytes |-> NotJson]

\* The return of ShareIntention with error e ("" is nil).
ShareReturn(e) == share' = [share EXCEPT !.pc = "returned", !.err = e]

\* A caller invokes ShareIntention. One envelope is in flight at a time: the
\* next call waits for the relay and the receiving node to be idle.
ShareCall(senderID, recipientID, intentionID, privateKeyPEM) ==
    /\ share.pc \in {"idle", "returned"}
    /\ shares < MaxShares
    /\ ~wire.full /\ inbound.pc = "idle"
    /\ share' = [IdleShare EXCEPT !.pc = "build", !.senderID = senderID,
                     !.recipientID = recipientID, !.intentionID = intentionID,
                     !.privateKeyPEM = privateKeyPEM]
    /\ trace' = NoTrace
    /\ shares' = shares + 1
    /\ UNCHANGED <<senderVars, callVars, nextFresh, sent, wire, inbound, localVars, recVars>>

\* A mutant of ShareBuild: the error of buildSharedPayload is not returned.
ShareBuildIgnoringError ==
    /\ share.pc = "build"
    /\ LET built == BuildSharedPayload(share.intentionID)
       IN  /\ trace' = [trace EXCEPT !.ops = Append(@, "build"),
                                     !.failed = IF built.err THEN "build" ELSE @]
           /\ share' = [share EXCEPT !.pc = "getkey",
                            !.payloadBytes = JsonMarshal(built.payload)]
    /\ UNCHANGED <<senderVars, callVars, shares, nextFresh, sent, wire, inbound, localVars, recVars>>

\* 1. buildSharedPayload and json.Marshal.
ShareBuild ==
    /\ share.pc = "build"
    /\ LET built == BuildSharedPayload(share.intentionID)
       IN  /\ trace' = [trace EXCEPT !.ops = Append(@, "build"),
                                     !.failed = IF built.err THEN "build" ELSE @]
           /\ IF built.err
              THEN ShareReturn("build")
              ELSE share' = [share EXCEPT !.pc = "getkey",
                                 !.payloadBytes = JsonMarshal(built.payload)]
    /\ UNCHANGED <<senderVars, callVars, shares, nextFresh, sent, wire, inbound, localVars, recVars>>

\* A mutant of ShareGetKey: the key of the sender is asked for.
ShareGetKeyOfSender ==
    /\ share.pc = "getkey"
    /\ \E answered \in BOOLEAN :
          LET got == GetKey(share.senderID)
              ok == answered /\ ~got.err
          IN  /\ trace' = [trace EXCEPT !.ops = Append(@, "GetKey"),
                                        !.keyIds = Append(@, share.senderID),
                                        !.failed = IF ok THEN @ ELSE "GetKey"]
              /\ IF ok
                 THEN share' = [share EXCEPT !.pc = "encrypt", !.recipientPubKey = got.key]
                 ELSE ShareReturn("getkey")
    /\ UNCHANGED <<senderVars, callVars, shares, nextFresh, sent, wire, inbound, localVars, recVars>>

\* 2. KeyClient.GetKey(recipientID); the service may also fail to answer.
ShareGetKey ==
    /\ share.pc = "getkey"
    /\ \E answered \in BOOLEAN :
          LET got == GetKey(share.recipientID)
              ok == answered /\ ~got.err
          IN  /\ trace' = [trace EXCEPT !.ops = Append(@, "GetKey"),
                                        !.keyIds = Append(@, share.recipientID),
                                        !.failed = IF ok THEN @ ELSE "GetKey"]
              /\ IF ok
                 THEN share' = [share EXCEPT !.pc = "encrypt", !.recipientPubKey = got.key]
                 ELSE ShareReturn("getkey")
    /\ UNCHANGED <<senderVars, callVars, shares, nextFresh, sent, wire, inbound, localVars, recVars>>

\* 3. crypto.Encrypt with the AAD of the header.
ShareEncrypt ==
    /\ share.pc = "encrypt"
    /\ LET aad == Aad(share.senderID, share.recipientID)
           enc == Encrypt(share.payloadBytes, aad, share.recipientPubKey, nextFresh)
       IN  /\ trace' = [trace EXCEPT !.ops = Append(@, "Encrypt"),
                                     !.failed = IF enc.err THEN "Encrypt" ELSE @]
           /\ IF enc.err
              THEN ShareReturn("encrypt")
              ELSE share' = [share EXCEPT !.pc = "sign",
                                 !.encryptedKey = enc.encryptedKey,
                                 !.encryptedData = enc.encryptedData]
    /\ nextFresh' = nextFresh + 1
    /\ UNCHANGED <<senderVars, callVars, shares, sent, wire, inbound, localVars, recVars>>

\* 3. crypto.Sign over the encrypted data.
ShareSign ==
    /\ share.pc = "sign"
    /\ LET sig == Sign(share.encryptedData, share.privateKeyPEM)
       IN  /\ trace' = [trace EXCEPT !.ops = Append(@, "Sign"),
                                     !.failed = IF sig.err THEN "Sign" ELSE @]
           /\ IF sig.err
              THEN ShareReturn("sign")
              ELSE share' = [share EXCEPT !.pc = "send", !.signature = sig.signature]
    /\ UNCHANGED <<senderVars, callVars, shares, nextFresh, sent, wire, inbound, localVars, recVars>>

\* A mutant of ShareSend: the envelope carries the payload bytes as they
\* are in place of the encrypted data.
ShareSendPlaintext ==
    /\ share.pc = "send"
    /\ LET envelope == SecureEnvelope(share.senderID, share.recipientID,
                           share.encryptedKey, share.payloadBytes, share.signature)
       IN  /\ sent' = [valid |-> TRUE, envelope |-> envelope,
                       payloadBytes |-> share.payloadBytes]
           /\ \E accepted \in BOOLEAN :
                 /\ trace' = [trace EXCEPT !.ops = Append(@, "Send"),
                                           !.envelopes = Append(@, envelope),
                                           !.failed = IF accepted THEN @ ELSE "Send"]
                 /\ IF accepted
                    THEN /\ wire' = [full |-> TRUE, envelope |-> envelope, changes |-> 0]
                         /\ ShareReturn("")
                    ELSE /\ wire' = wire
                         /\ ShareReturn("send")
    /\ UNCHANGED <<senderVars, callVars, shares, nextFresh, inbound, localVars, recVars>>

\* 4. The envelope is assembled and RouteClient.Send is called; the relay
\* accepts it (202) or the call fails.
ShareSend ==
    /\ share.pc = "send"
    /\ LET envelope == SecureEnvelope(share.senderID, share.recipientID,
                           share.encryptedKey, share.encryptedData, share.signature)
       IN  /\ sent' = [valid |-> TRUE, envelope |-> envelope,
                       payloadBytes |-> share.payloadBytes]
           /\ \E accepted \in BOOLEAN :
                 /\ trace' = [trace EXCEPT !.ops = Append(@, "Send"),
                                           !.envelopes = Append(@, envelope),
                                           !.failed = IF accepted THEN @ ELSE "Send"]
                 /\ IF accepted
                    THEN /\ wire' = [full |-> TRUE, envelope |-> envelope, changes |-> 0]
                         /\ ShareReturn("")
                    ELSE /\ wire' = wire
                         /\ ShareReturn("send")
    /\ UNCHANGED <<senderVars, callVars, shares, nextFresh, inbound, localVars, recVars>>

\* --------------------------------------------------------------- the relay

\* An envelope the sender produced earlier for the same recipient (fresh
\* randomness 0), which the relay has kept.
OldPayload ==
    SharedPayload(Intention("i1", "urn:alice", "Get Coffee", <<LocationTarget("sl1")>>, 1, 2),
                  Put(EmptyMap, UuidString("sl1"), SenderCafe), EmptyMap, EmptyMap)
OldEnvelope ==
    LET aad == Aad("urn:alice", "bob")
        enc == Encrypt(JsonMarshal(OldPayload), aad, PubPEM("kB"), 0)
    IN  SecureEnvelope("urn:alice", "bob", enc.encryptedKey, enc.encryptedData,
                       Sign(enc.encryptedData, PrivPEM("kA")).signature)

\* What the relay can make on its own: a payload of its choice, encrypted
\* for the recipient under randomness of its own, signed with its own key.
EveFresh == 0 - 1
EvePayload ==
    SharedPayload(ZeroIntention,
                  Put(EmptyMap, UuidString("f2"),
                      Location("f2", "Cafe", "Food", NoGlobal, "Cafe", "Food",
                               NoCoord, NoCoord, "USER", "eve")),
                  EmptyMap, EmptyMap)

\* The ids a header field can be replaced by.
HeaderIds == {"urn:alice", "urn", "bob", "alice:bob", "eve"}

\* The values encrypted_data can be replaced by: too few bytes, the old
\* envelope's, the relay's own ciphertext under the header's AAD, and the
\* original with bytes of the nonce or of the sealed part flipped.
DataValues(e) ==
    {NoData, OldEnvelope.encryptedData,
     Encrypt(JsonMarshal(EvePayload), Aad(e.senderID, e.recipientID), PubPEM("kB"),
             EveFresh).encryptedData,
     [e.encryptedData EXCEPT !.nonce = EveFresh],
     [e.encryptedData EXCEPT !.sealNonce = EveFresh]}

\* The values encrypted_symmetric_key can be replaced by.
KeyValues(e) == {NoKey, OldEnvelope.encryptedSymmetricKey, OaepKey("kB", EveFresh)}

\* The values signature can be replaced by.
SignatureValues(e) ==
    {NoSignature, OldEnvelope.signature, Sign(e.encryptedData, PrivPEM("kE")).signature}

NoWire == [full |-> FALSE, envelope |-> NoEnvelope, changes |-> 0]

\* The relay replaces one field of the envelope in transit by another value.
RelayChange(envelope) ==
    /\ wire.full
    /\ wire.changes < MaxTamper
    /\ envelope # wire.envelope
    /\ wire' = [wire EXCEPT !.envelope = envelope, !.changes = @ + 1]
    /\ UNCHANGED <<senderVars, callVars, shareVars, inbound, localVars, recVars>>

RelayChangeData ==
    \E v \in DataValues(wire.envelope) :
        RelayChange([wire.envelope EXCEPT !.encryptedData = v])

RelayChangeKey ==
    \E v \in KeyValues(wire.envelope) :
        RelayChange([wire.envelope EXCEPT !.encryptedSymmetricKey = v])

RelayChangeSignature ==
    \E v \in SignatureValues(wire.envelope) :
        RelayChange([wire.envelope EXCEPT !.signature = v])

\* The header is replaced: sender_id, recipient_id or both.
RelayChangeHeader ==
    \E v \in HeaderIds, w \in HeaderIds :
        RelayChange([wire.envelope EXCEPT !.senderID = v, !.recipientID = w])

\* ----------------------------------------------------------- the reconciler

\* A nil *uuid.UUID: no match.
NoMatch == "no-match"

NoResult == [locationMappings |-> EmptyMap, personMappings |-> EmptyMap]

\* startLocations, startPeople: what the local stores held when the call
\* in progress was made.
IdleRec ==
    [pc |-> "idle", payload |-> ZeroPayload,
     localLocations |-> << >>, todoLocations |-> {},
     localPeople |-> << >>, todoPeople |-> {},
     startLocations |-> {}, startPeople |-> {},
     result |-> NoResult]

NoPrev == [valid |-> FALSE, result |-> NoResult]

\* A mutant of BestLocation: the loop is left after its first turn.
BestLocationFirstOnly(m, locals, i, bestMatchID, bestMatchLevel) ==
    IF i > Len(locals) THEN bestMatchID
    ELSE IF LocationMatch(m, locals[i]) = MatchNone THEN bestMatchID ELSE locals[i].id

\* A mutant of BestLocation: the first local location that matches at all
\* is taken, EXACT or POSSIBLE.
BestLocationFirstMatch(m, locals, i, bestMatchID, bestMatchLevel) ==
    IF \E j \in i..Len(locals) : LocationMatch(m, locals[j]) # MatchNone
    THEN locals[CHOOSE j \in i..Len(locals) :
                    /\ LocationMatch(m, locals[j]) # MatchNone
                    /\ \A h \in i..(j - 1) : LocationMatch(m, locals[h]) = MatchNone].id
    ELSE bestMatchID

\* The matcher loop over the listed local locations, from index i on, with
\* bestMatchID and bestMatchLevel as they stand: the first EXACT ends the
\* loop, the first POSSIBLE is kept while none was kept before.
RECURSIVE BestLocation(_, _, _, _, _)
BestLocation(m, locals, i, bestMatchID, bestMatchLevel) ==
    IF i > Len(locals) THEN bestMatchID
    ELSE LET matchLevel == LocationMatch(m, locals[i])
         IN  IF matchLevel = MatchExact THEN locals[i].id
             ELSE IF matchLevel = MatchPossible /\ bestMatchLevel = MatchNone
                  THEN BestLocation(m, locals, i + 1, locals[i].id, MatchPossible)
                  ELSE BestLocation(m, locals, i + 1, bestMatchID, bestMatchLevel)

\* A mutant of BestPerson: a POSSIBLE match is not kept.
BestPersonExactOnly(m, locals, i, bestMatchID, bestMatchLevel) ==
    IF \E j \in i..Len(locals) : PersonMatch(m, locals[j]) = MatchExact
    THEN locals[CHOOSE j \in i..Len(locals) :
                    /\ PersonMatch(m, locals[j]) = MatchExact
                    /\ \A h \in i..(j - 1) : PersonMatch(m, locals[h]) # MatchExact].id
    ELSE bestMatchID

\* The same loop over the listed local people.
RECURSIVE BestPerson(_, _, _, _, _)
BestPerson(m, locals, i, bestMatchID, bestMatchLevel) ==
    IF i > Len(locals) THEN bestMatchID
    ELSE LET matchLevel == PersonMatch(m, locals[i])
         IN  IF matchLevel = MatchExact THEN locals[i].id
             ELSE IF matchLevel = MatchPossible /\ bestMatchLevel = MatchNone
                  THEN BestPerson(m, locals, i + 1, locals[i].id, MatchPossible)
                  ELSE BestPerson(m, locals, i + 1, bestMatchID, bestMatchLevel)

\* A mutant of ReconcileLocation: the matcher loop runs first and the
\* global-id lookup only when it found nothing.
ReconcileLocationMatcherFirst(incoming, found, locals) ==
    LET best == BestLocation(incoming.matcher, locals, 1, NoMatch, MatchNone)
    IN  IF best # NoMatch THEN best
        ELSE IF incoming.globalID # NoGlobal THEN found ELSE NoMatch

\* finalMatchID of one incoming location: found is what FindByGlobalID
\* returned (NoMatch for its error), locals the listed local locations.
ReconcileLocation(incoming, found, locals) ==
    LET byGlobalID == IF incoming.globalID # NoGlobal THEN found ELSE NoMatch
    IN  IF byGlobalID # NoMatch THEN byGlobalID
        ELSE BestLocation(incoming.matcher, locals, 1, NoMatch, MatchNone)

\* finalMatchID of one incoming person.
ReconcilePerson(incoming, found, locals) ==
    LET byGlobalID == IF incoming.globalID # NoGlobal THEN found ELSE NoMatch
    IN  IF byGlobalID # NoMatch THEN byGlobalID
        ELSE BestPerson(incoming.matcher, locals, 1, NoMatch, MatchNone)

\* What FindByGlobalID can hand the reconciler for an incoming entity.
GlobalLookups(store, incoming) ==
    IF incoming.globalID = NoGlobal \/ FindByGlobalID(store, incoming.globalID) = {}
    THEN {NoMatch}
    ELSE {e.id : e \in FindByGlobalID(store, incoming.globalID)}

\* ProcessPayload is entered with a payload: the frame of the call, and the
\* record of the call before it.
RecEnter(payload) ==
    /\ rec.pc \in {"idle", "done"}
    /\ rec' = [IdleRec EXCEPT !.pc = "listLocations", !.payload = payload,
                              !.startLocations = localLocationStore,
                              !.startPeople = localPersonStore]
    /\ prev' = [valid |-> rec.pc = "done" /\ ~dirty /\ rec.payload = payload,
                result |-> rec.result]
    /\ dirty' = FALSE

\* localLocations, _ := r.localLocationStore.ListAllForMatching(ctx)
RecListLocations ==
    /\ rec.pc = "listLocations"
    /\ \E listed \in ListAllForMatching(localLocationStore) :
          rec' = [rec EXCEPT !.pc = "locations", !.localLocations = listed,
                             !.todoLocations = DOMAIN rec.payload.locations]
    /\ UNCHANGED <<senderVars, callVars, shareVars, wire, inbound, localVars, prev, dirty, runs>>

\* A mutant of RecLocation: an incoming location that was not matched is
\* saved in the local store.
RecLocationInserting ==
    /\ rec.pc = "locations"
    /\ \E key \in rec.todoLocations :
          LET incoming == rec.payload.locations[key]
              senderID == UuidParse(key)
          IN  \E found \in GlobalLookups(localLocationStore, incoming) :
                 LET finalMatchID == ReconcileLocation(incoming, found, rec.localLocations)
                 IN  /\ rec' = [rec EXCEPT
                            !.todoLocations = @ \ {key},
                            !.result.locationMappings =
                                IF finalMatchID # NoMatch
                                THEN Put(@, senderID, finalMatchID) ELSE @]
                     /\ localLocationStore' =
                            IF finalMatchID # NoMatch THEN localLocationStore
                            ELSE StorePut(localLocationStore, incoming)
    /\ UNCHANGED <<senderVars, callVars, shareVars, wire, inbound, localPersonStore, prev, dirty, runs>>

\* One turn of the loop over payload.Locations.
RecLocation ==
    /\ rec.pc = "locations"
    /\ \E key \in rec.todoLocations :
          LET incoming == rec.payload.locations[key]
              senderID == UuidParse(key)
          IN  \E found \in GlobalLookups(localLocationStore, incoming) :
                 LET finalMatchID == ReconcileLocation(incoming, found, rec.localLocations)
                 IN  rec' = [rec EXCEPT
                         !.todoLocations = @ \ {key},
                         !.result.locationMappings =
                             IF finalMatchID # NoMatch
                             THEN Put(@, senderID, finalMatchID) ELSE @]
    /\ UNCHANGED <<senderVars, callVars, shareVars, wire, inbound, localVars, prev, dirty, runs>>

\* localPeople, _ := r.localPersonStore.ListAllForMatching(ctx)
RecListPeople ==
    /\ rec.pc = "locations" /\ rec.todoLocations = {}
    /\ \E listed \in ListAllForMatching(localPersonStore) :
          rec' = [rec EXCEPT !.pc = "people", !.localLocations = << >>,
                             !.localPeople = listed,
                             !.todoPeople = DOMAIN rec.payload.people]
    /\ UNCHANGED <<senderVars, callVars, shareVars, wire, inbound, localVars, prev, dirty, runs>>

\* One turn of the loop over payload.People.
RecPerson ==
    /\ rec.pc = "people"
    /\ \E key \in rec.todoPeople :
          LET incoming == rec.payload.people[key]
              senderID == UuidParse(key)
          IN  \E found \in GlobalLookups(localPersonStore, incoming) :
                 LET finalMatchID == ReconcilePerson(incoming, found, rec.localPeople)
                 IN  rec' = [rec EXCEPT
                         !.todoPeople = @ \ {key},
                         !.result.personMappings =
                             IF finalMatchID # NoMatch
                             THEN Put(@, senderID, finalMatchID) ELSE @]
    /\ UNCHANGED <<senderVars, callVars, shareVars, wire, inbound, localVars, prev, dirty, runs>>

\* return result, nil
RecReturn ==
    /\ rec.pc = "people" /\ rec.todoPeople = {}
    /\ rec' = [rec EXCEPT !.pc = "done", !.localPeople = << >>,
                          !.startLocations = {}, !.startPeople = {}]
    /\ UNCHANGED <<senderVars, callVars, shareVars, wire, inbound, localVars, prev, dirty, runs>>

\* ------------------------------------------- inbound processing of an envelope

\* The receiving node: the user whose public key it fetches to verify (the
\* literal of the key fetch) and its own private key.
InboundPeer == "urn:alice"
InboundPrivateKey == PrivPEM("kB")

IdleInbound ==
    [pc |-> "idle", envelope |-> NoEnvelope, changes |-> 0, senderKey |-> BadPEM,
     plaintext |-> NotJson, payload |-> ZeroPayload, decodeErr |-> FALSE,
     steps |-> << >>, failed |-> "", mapping |-> NoResult]

\* 5a. The envelope is taken from the relay.
InboundReceive ==
    /\ inbound.pc = "idle"
    /\ wire.full
    /\ share.pc \in {"idle", "returned"}
    /\ inbound' = [IdleInbound EXCEPT !.pc = "fetchkey", !.envelope = wire.envelope,
                       !.changes = wire.changes]
    /\ wire' = NoWire
    /\ UNCHANGED <<senderVars, callVars, shareVars, localVars, recVars>>

\* 5b. The sender's public key is fetched; the error of the fetch is
\* dropped, and a failed fetch leaves no key bytes.
InboundFetchKey ==
    /\ inbound.pc = "fetchkey"
    /\ \E answered \in BOOLEAN :
          LET got == GetKey(InboundPeer)
          IN  inbound' = [inbound EXCEPT
                  !.pc = "verify",
                  !.steps = Append(@, "fetchkey"),
                  !.failed = IF answered /\ ~got.err THEN @ ELSE "fetchkey",
                  !.senderKey = IF answered /\ ~got.err THEN got.key ELSE BadPEM]
    /\ UNCHANGED <<senderVars, callVars, shareVars, wire, localVars, recVars>>

\* 5b. crypto.Verify over the encrypted data; log.Fatalf on its error.
InboundVerify ==
    /\ inbound.pc = "verify"
    /\ LET ok == Verify(inbound.envelope.encryptedData, inbound.envelope.signature,
                        inbound.senderKey)
       IN  inbound' = [inbound EXCEPT
               !.pc = IF ok THEN "decrypt" ELSE "rejected",
               !.steps = Append(@, "verify"),
               !.failed = IF ok THEN @ ELSE "verify"]
    /\ UNCHANGED <<senderVars, callVars, shareVars, wire, localVars, recVars>>

\* 5c, 5d. The AAD is rebuilt from the header and crypto.Decrypt is called;
\* log.Fatalf on its error.
InboundDecrypt ==
    /\ inbound.pc = "decrypt"
    /\ LET reconstructedAad == Aad(inbound.envelope.senderID, inbound.envelope.recipientID)
           dec == Decrypt(inbound.envelope.encryptedSymmetricKey,
                          inbound.envelope.encryptedData, reconstructedAad,
                          InboundPrivateKey)
       IN  inbound' = [inbound EXCEPT
               !.pc = IF dec.err THEN "rejected" ELSE "decode",
               !.steps = Append(@, "decrypt"),
               !.failed = IF dec.err THEN "decrypt" ELSE @,
               !.plaintext = dec.plaintext]
    /\ UNCHANGED <<senderVars, callVars, shareVars, wire, localVars, recVars>>

\* 5e. json.Unmarshal(decryptedPayloadBytes, &receivedPayload): its error is
\* not looked at.
InboundDecode ==
    /\ inbound.pc = "decode"
    /\ LET dec == JsonUnmarshal(inbound.plaintext)
       IN  inbound' = [inbound EXCEPT
               !.pc = "reconcile",
               !.steps = Append(@, "decode"),
               !.decodeErr = dec.err,
               !.failed = IF dec.err THEN "decode" ELSE @,
               !.payload = dec.payload]
    /\ UNCHANGED <<senderVars, callVars, shareVars, wire, localVars, recVars>>

\* 5e. reconciler.ProcessPayload(ctx, receivedPayload) is called.
InboundReconcile ==
    /\ inbound.pc = "reconcile"
    /\ RecEnter(inbound.payload)
    /\ inbound' = [inbound EXCEPT !.pc = "reconciling", !.steps = Append(@, "reconcile")]
    /\ UNCHANGED <<senderVars, callVars, shareVars, wire, localVars, runs>>

\* ProcessPayload has returned its MappingResult.
InboundResult ==
    /\ inbound.pc = "reconciling"
    /\ rec.pc = "done"
    /\ inbound' = [inbound EXCEPT !.pc = "done", !.mapping = rec.result]
    /\ UNCHANGED <<senderVars, callVars, shareVars, wire, localVars, recVars>>

\* The processing of this envelope is over (the process has exited).
InboundExit ==
    /\ inbound.pc \in {"done", "rejected"}
    /\ inbound' = IdleInbound
    /\ UNCHANGED <<senderVars, callVars, shareVars, wire, localVars, recVars>>

\* ------------------------------------------------- the receiving node's data

\* The local entities of the receiving node in the sharing specification:
\* its own record of the cafe (another name, the same matcher data) and of Bob.
ReceiverCafe ==
    Location("l3", "My Favorite Cafe", "Food", NoGlobal, "Cafe", "Food", NoCoord, NoCoord,
             "USER", NoUser)
ReceiverBob == Person("p1", "Bob", NoGlobal, "Bob", "bob@x")

\* ------------------------------------------ specification: share and receive

Init ==
    /\ intentionStore = SenderIntentions
    /\ locationStore = {SenderCafe, SenderPark}
    /\ personStore = {SenderBob, SenderCarol}
    /\ groupStore = {SenderFriends}
    /\ share = IdleShare
    /\ trace = NoTrace
    /\ shares = 0
    /\ nextFresh = 1
    /\ sent = NoSent
    /\ wire = NoWire
    /\ inbound = IdleInbound
    /\ localLocationStore \in {{}, {ReceiverCafe}}
    /\ localPersonStore \in {{}, {ReceiverBob}}
    /\ rec = IdleRec
    /\ prev = NoPrev
    /\ dirty = FALSE
    /\ runs = 0
    /\ call = NoCall
    /\ tasks = NoTasks
    /\ mutex = NoTask

Next ==
    \/ \E s \in SenderIds, r \in RecipientIds, i \in IntentionIds, k \in PrivateKeys :
          ShareCall(s, r, i, k)
    \/ ShareBuild
    \/ ShareGetKey
    \/ ShareEncrypt
    \/ ShareSign
    \/ ShareSend
    \/ RelayChangeData
    \/ RelayChangeKey
    \/ RelayChangeSignature
    \/ RelayChangeHeader
    \/ InboundReceive
    \/ InboundFetchKey
    \/ InboundVerify
    \/ InboundDecrypt
    \/ InboundDecode
    \/ InboundReconcile
    \/ RecListLocations
    \/ RecLocation
    \/ RecListPeople
    \/ RecPerson
    \/ RecReturn
    \/ InboundResult
    \/ InboundExit

Spec == Init /\ [][Next]_vars

\* --------------------------------------------- specification: the reconciler

\* The locations a local store of the receiving node can be given.
LocalLocationInputs ==
    {Location("l1", "Park", "Rec", "g-park", "Park", "Rec", NoCoord, NoCoord, "SHARED", NoUser),
     Location("l2", "Green", "Rec", "g-park", "Green", "Rec", NoCoord, NoCoord, "SHARED", NoUser),
     ReceiverCafe,
     Location("l4", "Cafe", "Bar", NoGlobal, "Cafe", "Bar", NoCoord, NoCoord, "USER", "bob"),
     Location("l5", "Cafe", "Food", NoGlobal, "Cafe", "Food", 40, 0, "USER", "bob"),
     Location("l6", "Cafe", "Food", NoGlobal, "Cafe", "Food", 300, 0, "USER", "bob")}

\* The people it can be given.
LocalPersonInputs ==
    {ReceiverBob,
     Person("p2", "Bobby", "g-bob", "bob", NoHandle),
     Person("p3", "Robert", NoGlobal, "Robert", "BOB@X")}

\* Incoming locations: one with a global id and the cafe's matcher data, the
\* cafe without a global id, a park whose global id nobody holds, and the
\* cafe with coordinates.
ForeignF1 ==
    Location("f1", "Cafe", "Food", "g-park", "cafe", "food", NoCoord, NoCoord, "SHARED", NoUser)
ForeignF2 ==
    Location("f2", "cafe", "food", NoGlobal, "cafe", "food", NoCoord, NoCoord, "USER", "urn:alice")
ForeignF3 ==
    Location("f3", "PARK", "Playground", "g-nowhere", "PARK", "Playground", NoCoord, NoCoord,
             "SHARED", NoUser)
ForeignF4 ==
    Location("f4", "cafe", "food", NoGlobal, "cafe", "food", 0, 0, "USER", "urn:alice")

\* Incoming people: Bob with a handle, Charlie whom nobody matches, and one
\* known by global id only.
ForeignP1 == Person("fp1", "Bob", NoGlobal, "Bob", "BOB@X")
ForeignP2 == Person("fp2", "Charlie", NoGlobal, "Charlie", NoHandle)
ForeignP3 == Person("fp3", "Zed", "g-bob", "Zed", NoHandle)

\* A map from the canonical text of each entity's id to the entity.
ById(entities) ==
    [key \in {UuidString(e.id) : e \in entities} |->
        CHOOSE e \in entities : UuidString(e.id) = key]

\* The payloads ProcessPayload is called with.
ReconPayloads ==
    {SharedPayload(ZeroIntention, ById({ForeignF1, ForeignF2}), ById({ForeignP1}), EmptyMap),
     SharedPayload(ZeroIntention, ById({ForeignF3, ForeignF4}),
                   ById({ForeignP2, ForeignP3}), EmptyMap),
     SharedPayload(ZeroIntention, ById({ForeignF2}), ById({ForeignP1, ForeignP3}), EmptyMap),
     SharedPayload(ZeroIntention, ById({ForeignF1, ForeignF4}), ById({ForeignP3}), EmptyMap)}

\* locations.InMemoryStore.Add on the receiving node, by the caller that also
\* calls ProcessPayload: between two calls, never during one.
AddLocalLocation(loc) ==
    /\ rec.pc \in {"idle", "done"}
    /\ Cardinality(localLocationStore) < MaxLocal
    /\ ~Has(localLocationStore, loc.id)
    /\ localLocationStore' = StorePut(localLocationStore, loc)
    /\ dirty' = TRUE
    /\ UNCHANGED <<senderVars, callVars, shareVars, wire, inbound, localPersonStore, rec, prev, runs>>

\* people.InMemoryStore.AddPerson on the receiving node.
AddLocalPerson(p) ==
    /\ rec.pc \in {"idle", "done"}
    /\ Cardinality(localPersonStore) < MaxLocal
    /\ ~Has(localPersonStore, p.id)
    /\ localPersonStore' = StorePut(localPersonStore, p)
    /\ dirty' = TRUE
    /\ UNCHANGED <<senderVars, callVars, shareVars, wire, inbound, localLocationStore, rec, prev, runs>>

\* A caller invokes Reconciler.ProcessPayload: with any payload the first
\* time, with the same payload again after that.
ProcessPayloadCall(payload) ==
    /\ runs < MaxRuns
    /\ rec.pc = "done" => payload = rec.payload
    /\ RecEnter(payload)
    /\ runs' = runs + 1
    /\ UNCHANGED <<senderVars, callVars, shareVars, wire, inbound, localVars>>

InitRecon ==
    /\ intentionStore = SenderIntentions
    /\ locationStore = {SenderCafe, SenderPark}
    /\ personStore = {SenderBob, SenderCarol}
    /\ groupStore = {SenderFriends}
    /\ share = IdleShare
    /\ trace = NoTrace
    /\ shares = 0
    /\ nextFresh = 1
    /\ sent = NoSent
    /\ wire = NoWire
    /\ inbound = IdleInbound
    /\ localLocationStore = {}
    /\ localPersonStore = {}
    /\ rec = IdleRec
    /\ prev = NoPrev
    /\ dirty = FALSE
    /\ runs = 0
    /\ call = NoCall
    /\ tasks = NoTasks
    /\ mutex = NoTask

NextRecon ==
    \/ \E loc \in LocalLocationInputs : AddLocalLocation(loc)
    \/ \E p \in LocalPersonInputs : AddLocalPerson(p)
    \/ \E payload \in ReconPayloads : ProcessPayloadCall(payload)
    \/ RecListLocations
    \/ RecLocation
    \/ RecListPeople
    \/ RecPerson
    \/ RecReturn

SpecRecon == InitRecon /\ [][NextRecon]_vars

\* ------------------------------------------------ claims: inbound processing

\* C1: the inbound steps of one envelope run in the order verify, decrypt,
\* decode, reconcile, each only after the one before it succeeded: no
\* decryption without a verified signature, no reconciliation without a
\* successful decode.
C1StepsOrdered ==
    /\ \E n \in 0..5 :
          inbound.steps = SubSeq(<<"fetchkey", "verify", "decrypt", "decode", "reconcile">>, 1, n)
    /\ Len(inbound.steps) >= 3 =>
          Verify(inbound.envelope.encryptedData, inbound.envelope.signature, inbound.senderKey)
    /\ Len(inbound.steps) >= 4 => inbound.failed # "decrypt"
    /\ Len(inbound.steps) >= 5 => ~inbound.decodeErr

\* C2: an envelope whose encrypted_data, encrypted_symmetric_key or signature
\* is not as the outbound workflow produced it never gets past verification
\* and decryption, so ProcessPayload is never invoked for it.
C2ChangedEnvelopeRejected ==
    LET parts(e) == <<e.encryptedData, e.encryptedSymmetricKey, e.signature>>
    IN  (/\ inbound.pc # "idle"
         /\ sent.valid
         /\ parts(inbound.envelope) # parts(sent.envelope)
         /\ parts(inbound.envelope) # parts(OldEnvelope))
        => /\ inbound.pc \in {"fetchkey", "verify", "decrypt", "rejected"}
           /\ inbound.failed # "decode"
           /\ Len(inbound.steps) <= 3

\* A changed signature, data or key was looked at and the envelope rejected.
C2Witness ==
    /\ inbound.pc = "rejected"
    /\ inbound.changes > 0
    /\ inbound.envelope.senderID = sent.envelope.senderID
    /\ inbound.envelope.recipientID = sent.envelope.recipientID
    /\ inbound.envelope # sent.envelope
    /\ inbound.failed = "decrypt"

\* C3: the header is bound to the ciphertext: when sender_id or recipient_id
\* of an envelope was replaced and the rest left as sent, decryption fails.
C3HeaderBound ==
    (/\ sent.valid
     /\ inbound.envelope.encryptedData = sent.envelope.encryptedData
     /\ inbound.envelope.encryptedSymmetricKey = sent.envelope.encryptedSymmetricKey
     /\ <<inbound.envelope.senderID, inbound.envelope.recipientID>>
            # <<sent.envelope.senderID, sent.envelope.recipientID>>
     /\ Len(inbound.steps) >= 3)
    => inbound.failed = "decrypt"

\* C4: when a step of the inbound processing fails (key fetch, verification,
\* decryption, decode), no later step runs and no mapping is handed on.
C4FailureRejects ==
    inbound.failed # "" =>
        /\ inbound.steps[Len(inbound.steps)] = inbound.failed
        /\ inbound.mapping = NoResult

C6ShareSequence ==
    (share.pc = "returned" /\ share.err = "") =>
        /\ trace.ops = <<"build", "GetKey", "Encrypt", "Sign", "Send">>
        /\ trace.keyIds = <<share.recipientID>>
        /\ Len(trace.envelopes) = 1
        /\ trace.envelopes[1].senderID = share.senderID
        /\ trace.envelopes[1].recipientID = share.recipientID
        /\ trace.envelopes[1].signature =
               Sign(trace.envelopes[1].encryptedData, share.privateKeyPEM).signature

C6Witness ==
    /\ share.pc = "returned"
    /\ share.err = ""
    /\ share.senderID = "eve"
    /\ Len(trace.envelopes) = 1

\* C7: ShareIntention returns an error and has not called Send when the
\* intention is missing, GetKey failed, Encrypt failed or Sign failed; with
\* the intention missing it has not called GetKey either; when Send failed
\* it returns an error.
C7ShareErrors ==
    LET called(op) == \E i \in 1..Len(trace.ops) : trace.ops[i] = op
    IN  share.pc = "returned" =>
            /\ trace.failed # "" => share.err # ""
            /\ trace.failed \in {"build", "GetKey", "Encrypt", "Sign"} => ~called("Send")
            /\ ~Has(intentionStore, share.intentionID) =>
                  trace.failed = "build" /\ ~called("GetKey")
            /\ (GetKey(share.recipientID).err \/ share.privateKeyPEM = BadPEM) =>
                  share.err # "" /\ ~called("Send")

\* Calls that ended at each step: Send refused, and no key for the recipient.
C7Witness ==
    /\ share.pc = "returned"
    /\ trace.failed = "Sign"
    /\ trace.ops = <<"build", "GetKey", "Encrypt", "Sign">>

\* ------------------------------------------------- claims: the reconciler

\* C8: when ProcessPayload has returned, every incoming location or person
\* whose global id some local entity holds is mapped to a local entity with
\* that global id, whatever the matchers say of the local entities.
C8GlobalIdFirst ==
    LET held(store, g) == IF g = NoGlobal THEN {} ELSE {e.id : e \in FindByGlobalID(store, g)}
        ok(incoming, store, mappings) ==
            \A key \in DOMAIN incoming :
                held(store, incoming[key].globalID) # {} =>
                    /\ UuidParse(key) \in DOMAIN mappings
                    /\ mappings[UuidParse(key)] \in held(store, incoming[key].globalID)
    IN  (rec.pc = "done" /\ ~dirty) =>
            /\ ok(rec.payload.locations, localLocationStore, rec.result.locationMappings)
            /\ ok(rec.payload.people, localPersonStore, rec.result.personMappings)

\* The incoming location with the park's global id and the cafe's matcher
\* data went to the park although the cafe is in the store; the incoming
\* person known by global id went to its holder, whom no matcher data fits.
C8Witness ==
    /\ rec.pc = "done"
    /\ ~dirty
    /\ ReceiverCafe \in localLocationStore
    /\ "f1" \in DOMAIN rec.result.locationMappings
    /\ rec.result.locationMappings["f1"] = "l1"
    /\ "fp3" \in DOMAIN rec.result.personMappings
    /\ rec.result.personMappings["fp3"] = "p2"

\* C9 as stated: a second run of ProcessPayload on the same payload, with
\* both local stores unchanged since the first, returns the MappingResult the
\* first returned, whatever the stores hold and in whatever order they list it.
C9SameResultAlways ==
    (rec.pc = "done" /\ prev.valid /\ ~dirty) => rec.result = prev.result

\* C9 as amended: the second run returns the MappingResult of the first when
\* no incoming entity has more than one candidate: at most one local entity
\* holds its global id and, when none does, at most one local entity matches
\* EXACT and, when none does, at most one matches POSSIBLE.
C9Unambiguous ==
    LET held(store, g) == IF g = NoGlobal THEN {} ELSE FindByGlobalID(store, g)
        single(S) == Cardinality(S) <= 1
        locationsClear ==
            \A key \in DOMAIN rec.payload.locations :
                LET f == rec.payload.locations[key]
                    level(v) == {l \in localLocationStore : LocationMatch(f.matcher, l) = v}
                IN  /\ single(held(localLocationStore, f.globalID))
                    /\ held(localLocationStore, f.globalID) = {} =>
                          /\ single(level(MatchExact))
                          /\ level(MatchExact) = {} => single(level(MatchPossible))
        peopleClear ==
            \A key \in DOMAIN rec.payload.people :
                LET f == rec.payload.people[key]
                    level(v) == {l \in localPersonStore : PersonMatch(f.matcher, l) = v}
                IN  /\ single(held(localPersonStore, f.globalID))
                    /\ held(localPersonStore, f.globalID) = {} =>
                          /\ single(level(MatchExact))
                          /\ level(MatchExact) = {} => single(level(MatchPossible))
    IN  locationsClear /\ peopleClear

C9SameResultWhenUnambiguous ==
    (rec.pc = "done" /\ prev.valid /\ ~dirty /\ C9Unambiguous) => rec.result = prev.result

\* A second run over two local locations, one EXACT and one POSSIBLE for the
\* incoming cafe, and two local people of whom one matches the incoming one.
C9Witness ==
    /\ rec.pc = "done"
    /\ prev.valid
    /\ ~dirty
    /\ C9Unambiguous
    /\ Cardinality(localLocationStore) = 2
    /\ Cardinality(localPersonStore) = 2
    /\ UuidString("f2") \in DOMAIN rec.payload.locations
    /\ \E l \in localLocationStore : LocationMatch(ForeignF2.matcher, l) = MatchExact
    /\ \E l \in localLocationStore : LocationMatch(ForeignF2.matcher, l) = MatchPossible
    /\ "fp1" \in DOMAIN rec.result.personMappings
    /\ rec.result = prev.result

\* C10: no step of ProcessPayload changes the local location store or the
\* local people store.
C10StoresUntouched ==
    [][rec' # rec => (localLocationStore' = localLocationStore
                      /\ localPersonStore' = localPersonStore)]_vars

\* ProcessPayload returned with an incoming location left unmapped, which
\* the local store does not hold.
C10Witness ==
    /\ rec.pc = "done"
    /\ ~dirty
    /\ UuidString("f3") \in DOMAIN rec.payload.locations
    /\ "f3" \notin DOMAIN rec.result.locationMappings
    /\ localLocationStore # {}
    /\ \A l \in localLocationStore : l.id # "f3"

\* ------------------------- specification: writes during a reconciliation

\* locations.InMemoryStore.Add by another goroutine while ProcessPayload is
\* running (the store's mutex orders it with the reads of the reconciler).
ConcurrentAddLocation(loc) ==
    /\ rec.pc \notin {"idle", "done"}
    /\ Cardinality(localLocationStore) < MaxLocal
    /\ ~Has(localLocationStore, loc.id)
    /\ localLocationStore' = StorePut(localLocationStore, loc)
    /\ dirty' = TRUE
    /\ UNCHANGED <<senderVars, callVars, shareVars, wire, inbound, localPersonStore, rec, prev, runs>>

\* people.InMemoryStore.AddPerson by another goroutine while ProcessPayload
\* is running.
ConcurrentAddPerson(p) ==
    /\ rec.pc \notin {"idle", "done"}
    /\ Cardinality(localPersonStore) < MaxLocal
    /\ ~Has(localPersonStore, p.id)
    /\ localPersonStore' = StorePut(localPersonStore, p)
    /\ dirty' = TRUE
    /\ UNCHANGED <<senderVars, callVars, shareVars, wire, inbound, localLocationStore, rec, prev, runs>>

\* One ProcessPayload call with writers at work beside it.
NextConcurrent ==
    \/ \E payload \in ReconPayloads : runs = 0 /\ ProcessPayloadCall(payload)
    \/ RecListLocations
    \/ RecLocation
    \/ RecListPeople
    \/ RecPerson
    \/ RecReturn
    \/ \E loc \in LocalLocationInputs : ConcurrentAddLocation(loc)
    \/ \E p \in LocalPersonInputs : ConcurrentAddPerson(p)

SpecConcurrent == InitRecon /\ [][NextConcurrent]_vars

\* C11: ProcessPayload works on the local entities as they were when the call
\* was made: every location or person mapping it makes goes to an entity the
\* store held at the start of the call, one that holds the incoming entity's
\* global id or that its matcher does not rate NONE.
C11SnapshotJustifies ==
    LET justified(mappings, incoming, atStart, verdict(_, _)) ==
            \A k \in DOMAIN mappings :
                \E key \in DOMAIN incoming, local \in atStart :
                    /\ UuidParse(key) = k
                    /\ local.id = mappings[k]
                    /\ \/ /\ incoming[key].globalID # NoGlobal
                          /\ incoming[key].globalID = local.globalID
                       \/ verdict(incoming[key].matcher, local) # MatchNone
    IN  rec.pc \in {"locations", "people"} =>
            /\ justified(rec.result.locationMappings, rec.payload.locations,
                         rec.startLocations, LocationMatch)
            /\ justified(rec.result.personMappings, rec.payload.people,
                         rec.startPeople, PersonMatch)

\* C12: when ProcessPayload has returned, an incoming location or person is
\* a key of its mappings exactly when a local match exists for it (a local
\* entity holds its global id, or the matcher rates some local entity
\* POSSIBLE or EXACT), and every value is the id of an entity of the store.
C12MappedIffMatched ==
    LET matched(f, store, verdict(_, _)) ==
            \E local \in store :
                \/ f.globalID # NoGlobal /\ f.globalID = local.globalID
                \/ verdict(f.matcher, local) # MatchNone
        ok(mappings, incoming, store, verdict(_, _)) ==
            /\ \A key \in DOMAIN incoming :
                  UuidParse(key) \in DOMAIN mappings
                      <=> matched(incoming[key], store, verdict)
            /\ \A k \in DOMAIN mappings :
                  /\ \E key \in DOMAIN incoming : UuidParse(key) = k
                  /\ \E local \in store : local.id = mappings[k]
    IN  (rec.pc = "done" /\ ~dirty) =>
            /\ ok(rec.result.locationMappings, rec.payload.locations,
                  localLocationStore, LocationMatch)
            /\ ok(rec.result.personMappings, rec.payload.people,
                  localPersonStore, PersonMatch)

\* A call returned with one incoming person mapped on a POSSIBLE verdict,
\* and another, whom no local person matches, left out.
C12Witness ==
    /\ rec.pc = "done"
    /\ ~dirty
    /\ UuidString("fp2") \in DOMAIN rec.payload.people
    /\ "fp2" \notin DOMAIN rec.result.personMappings
    /\ Cardinality(localPersonStore) = 2
    /\ "f3" \in DOMAIN rec.result.locationMappings
    /\ \A l \in localLocationStore : LocationMatch(ForeignF3.matcher, l) # MatchExact
    /\ "f4" \notin DOMAIN rec.result.locationMappings

\* ------------------------------------- specification: the payload builder

\* The sending node's stores hold any part of its entities; ShareIntention
\* is called and builds the payload.
InitBuild ==
    /\ intentionStore = SenderIntentions
    /\ locationStore \in SUBSET {SenderCafe, SenderPark}
    /\ personStore \in SUBSET {SenderBob, SenderCarol}
    /\ groupStore \in SUBSET {SenderFriends}
    /\ share = IdleShare
    /\ trace = NoTrace
    /\ shares = 0
    /\ nextFresh = 1
    /\ sent = NoSent
    /\ wire = NoWire
    /\ inbound = IdleInbound
    /\ localLocationStore = {}
    /\ localPersonStore = {}
    /\ rec = IdleRec
    /\ prev = NoPrev
    /\ dirty = FALSE
    /\ runs = 0
    /\ call = NoCall
    /\ tasks = NoTasks
    /\ mutex = NoTask

NextBuild ==
    \/ \E senderID \in SenderIds, recipientID \in RecipientIds,
          intentionID \in IntentionIds, privateKeyPEM \in PrivateKeys :
            ShareCall(senderID, recipientID, intentionID, privateKeyPEM)
    \/ ShareBuild

SpecBuild == InitBuild /\ [][NextBuild]_vars

\* C13: buildSharedPayload succeeds whenever the intention exists, whatever
\* the stores hold of the entities its targets refer to; the payload's
\* locations, people and groups are exactly the referred entities that the
\* stores hold, each under the text of its own id.
C13BestEffort ==
    LET targets == Get(intentionStore, share.intentionID).targets
        ofType(type) == {i \in 1..Len(targets) : targets[i].type = type}
        locationIDs == {targets[i].locationID : i \in ofType("Location")}
        personIDs ==
            UNION {{targets[i].personIDs[j] : j \in 1..Len(targets[i].personIDs)} :
                       i \in ofType("Proximity")}
        groupIDs ==
            UNION {{targets[i].groupIDs[j] : j \in 1..Len(targets[i].groupIDs)} :
                       i \in ofType("Proximity")}
        payload == share.payloadBytes.payload
    IN  (trace.ops = <<"build">> /\ Has(intentionStore, share.intentionID)) =>
            /\ trace.failed = ""
            /\ share.pc = "getkey"
            /\ share.payloadBytes.json
            /\ payload.intention = Get(intentionStore, share.intentionID)
            /\ payload.locations = ById({e \in locationStore : e.id \in locationIDs})
            /\ payload.people = ById({e \in personStore : e.id \in personIDs})
            /\ payload.groups = ById({e \in groupStore : e.id \in groupIDs})

\* The payload of the intention with a person, a group and a location was
\* built with the person missing from the store and the others held.
C13Witness ==
    /\ trace.ops = <<"build">>
    /\ share.pc = "getkey"
    /\ share.intentionID = "i2"
    /\ personStore = {SenderCarol}
    /\ DOMAIN share.payloadBytes.payload.people = {}
    /\ DOMAIN share.payloadBytes.payload.groups = {UuidString("sg1")}
    /\ DOMAIN share.payloadBytes.payload.locations = {UuidString("sl2")}

\* C14: a payload built for an intention whose referred entities are all in
\* the stores is self-contained: the ids of its targets are keys of
\* locations, people and groups, and every member of an included group who
\* is in the people store is a key of people.
C14SelfContained ==
    LET payload == share.payloadBytes.payload
        targets == payload.intention.targets
        complete(t) ==
            CASE t.type = "Location" -> Has(locationStore, t.locationID)
              [] t.type = "Proximity" ->
                    /\ \A j \in 1..Len(t.personIDs) : Has(personStore, t.personIDs[j])
                    /\ \A j \in 1..Len(t.groupIDs) : Has(groupStore, t.groupIDs[j])
              [] OTHER -> TRUE
        contained(t) ==
            CASE t.type = "Location" -> UuidString(t.locationID) \in DOMAIN payload.locations
              [] t.type = "Proximity" ->
                    /\ \A j \in 1..Len(t.personIDs) :
                          UuidString(t.personIDs[j]) \in DOMAIN payload.people
                    /\ \A j \in 1..Len(t.groupIDs) :
                          UuidString(t.groupIDs[j]) \in DOMAIN payload.groups
              [] OTHER -> TRUE
    IN  (/\ trace.ops = <<"build">>
         /\ share.pc = "getkey"
         /\ \A i \in 1..Len(targets) : complete(targets[i]))
        => /\ \A i \in 1..Len(targets) : contained(targets[i])
           /\ \A key \in DOMAIN payload.groups :
                 \A j \in 1..Len(payload.groups[key].memberIDs) :
                     Has(personStore, payload.groups[key].memberIDs[j]) =>
                         UuidString(payload.groups[key].memberIDs[j])
                             \in DOMAIN payload.people

\* ---------------------------------- specification: the intention service

\* What AddIntention and Query are called with.
UserInputs == {"", "urn:alice", "bob"}
ActionInputs == {"", "Get Coffee"}
TargetInputs == {<< >>, <<LocationTarget("sl1")>>}
TimeInputs == 1..3

\* The ids uuid.New() hands out, in order.
NewIds == <<"i1", "i2", "i3", "i9">>

\* The record of a call: its arguments, what it returned (err, the
\* intention or the query results), and the store as it was before.
CallRecord(op, intent, spec, err, result, results) ==
    [op |-> op, args |-> intent, spec |-> spec, err |-> err, result |-> result,
     results |-> results, before |-> intentionStore]

\* A mutant of AddIntention: the times are not compared.
AddIntentionAnyTimes(user, action, targets, start, end) ==
    /\ Cardinality(intentionStore) < MaxIntentions
    /\ LET asked == Intention(NilUuid, user, action, targets, start, end)
           intent == Intention(NewIds[Cardinality(intentionStore) + 1],
                               user, action, targets, start, end)
       IN  IF user = "" \/ action = "" \/ Len(targets) = 0
           THEN /\ call' = CallRecord("AddIntention", asked, QuerySpec(NoUser, NoTime),
                                      TRUE, ZeroIntention, {})
                /\ intentionStore' = intentionStore
           ELSE /\ call' = CallRecord("AddIntention", asked, QuerySpec(NoUser, NoTime),
                                      FALSE, intent, {})
                /\ intentionStore' = StorePut(intentionStore, intent)
    /\ UNCHANGED <<locationStore, personStore, groupStore, shareVars, wire, inbound,
                   localVars, recVars, tasks, mutex>>

\* A mutant of AddIntention: an intention that ends when it starts is
\* rejected.
AddIntentionStrictEnd(user, action, targets, start, end) ==
    /\ Cardinality(intentionStore) < MaxIntentions
    /\ LET asked == Intention(NilUuid, user, action, targets, start, end)
           intent == Intention(NewIds[Cardinality(intentionStore) + 1],
                               user, action, targets, start, end)
       IN  IF user = "" \/ action = "" \/ end <= start \/ Len(targets) = 0
           THEN /\ call' = CallRecord("AddIntention", asked, QuerySpec(NoUser, NoTime),
                                      TRUE, ZeroIntention, {})
                /\ intentionStore' = intentionStore
           ELSE /\ call' = CallRecord("AddIntention", asked, QuerySpec(NoUser, NoTime),
                                      FALSE, intent, {})
                /\ intentionStore' = StorePut(intentionStore, intent)
    /\ UNCHANGED <<locationStore, personStore, groupStore, shareVars, wire, inbound,
                   localVars, recVars, tasks, mutex>>

\* IntentionService.AddIntention: validation, uuid.New(), store.Add.
AddIntention(user, action, targets, start, end) ==
    /\ Cardinality(intentionStore) < MaxIntentions
    /\ LET asked == Intention(NilUuid, user, action, targets, start, end)
           intent == Intention(NewIds[Cardinality(intentionStore) + 1],
                               user, action, targets, start, end)
       IN  IF user = "" \/ action = ""
           THEN /\ call' = CallRecord("AddIntention", asked, QuerySpec(NoUser, NoTime),
                                      TRUE, ZeroIntention, {})
                /\ intentionStore' = intentionStore
           ELSE IF end < start
           THEN /\ call' = CallRecord("AddIntention", asked, QuerySpec(NoUser, NoTime),
                                      TRUE, ZeroIntention, {})
                /\ intentionStore' = intentionStore
           ELSE IF Len(targets) = 0
           THEN /\ call' = CallRecord("AddIntention", asked, QuerySpec(NoUser, NoTime),
                                      TRUE, ZeroIntention, {})
                /\ intentionStore' = intentionStore
           ELSE /\ call' = CallRecord("AddIntention", asked, QuerySpec(NoUser, NoTime),
                                      FALSE, intent, {})
                /\ intentionStore' = StorePut(intentionStore, intent)
    /\ UNCHANGED <<locationStore, personStore, groupStore, shareVars, wire, inbound,
                   localVars, recVars, tasks, mutex>>

\* A caller runs Store.Query with a QuerySpec.
QueryCall(user, activeAt) ==
    /\ call' = CallRecord("Query", ZeroIntention, QuerySpec(user, activeAt), FALSE,
                          ZeroIntention, Query(intentionStore, QuerySpec(user, activeAt)))
    /\ UNCHANGED <<senderVars, shareVars, wire, inbound, localVars, recVars, tasks, mutex>>

InitIntentions ==
    /\ intentionStore = {}
    /\ locationStore = {SenderCafe, SenderPark}
    /\ personStore = {SenderBob, SenderCarol}
    /\ groupStore = {SenderFriends}
    /\ share = IdleShare
    /\ trace = NoTrace
    /\ shares = 0
    /\ nextFresh = 1
    /\ sent = NoSent
    /\ wire = NoWire
    /\ inbound = IdleInbound
    /\ localLocationStore = {}
    /\ localPersonStore = {}
    /\ rec = IdleRec
    /\ prev = NoPrev
    /\ dirty = FALSE
    /\ runs = 0
    /\ call = NoCall
    /\ tasks = NoTasks
    /\ mutex = NoTask

NextIntentions ==
    \/ \E user \in UserInputs, action \in ActionInputs, targets \in TargetInputs,
          start \in TimeInputs, end \in TimeInputs :
            AddIntention(user, action, targets, start, end)
    \/ \E user \in {NoUser, "urn:alice", "bob"}, activeAt \in {NoTime} \cup 0..4 :
            QueryCall(user, activeAt)

SpecIntentions == InitIntentions /\ [][NextIntentions]_vars

\* ---------------------------------------- claims: the intention service

\* C15: every intention the store holds after AddIntention calls ends no
\* earlier than it starts and has a user, an action and a target.
C15StoredIntentionsValid ==
    \A i \in intentionStore :
        /\ i.endTime >= i.startTime
        /\ i.user # ""
        /\ i.action # ""
        /\ Len(i.targets) >= 1

\* Two intentions are stored, one of which ends when it starts.
C15Witness ==
    /\ call.op = "AddIntention"
    /\ Cardinality(intentionStore) = 2
    /\ \E i \in intentionStore : i.endTime = i.startTime
    /\ \E i \in intentionStore : i.endTime > i.startTime

\* C16: AddIntention returns an error exactly when the user is empty, the
\* action is empty, the end is before the start or there is no target; a
\* rejected call leaves the store as it was, an accepted call adds one
\* intention, made of its arguments, and returns it.
C16AddIntentionValidates ==
    call.op = "AddIntention" =>
        /\ call.err <=> \/ call.args.user = ""
                        \/ call.args.action = ""
                        \/ call.args.endTime < call.args.startTime
                        \/ call.args.targets = << >>
        /\ call.err => intentionStore = call.before /\ call.result = ZeroIntention
        /\ ~call.err =>
              /\ call.result \notin call.before
              /\ \A i \in call.before : i.id # call.result.id
              /\ intentionStore = call.before \cup {call.result}
              /\ call.result = [call.args EXCEPT !.id = call.result.id]

\* An intention that ends when it starts was accepted as the second one.
C16Witness ==
    /\ call.op = "AddIntention"
    /\ ~call.err
    /\ call.args.endTime = call.args.startTime
    /\ Cardinality(call.before) = 1
    /\ Cardinality(intentionStore) = 2

\* C17: Query returns exactly the stored intentions that pass every filter
\* that is set (the user is the one asked for; the time asked for is
\* neither before the start nor after the end), and leaves the store as it
\* was.
C17QueryFilters ==
    LET passes(i) ==
            /\ call.spec.user = NoUser \/ i.user = call.spec.user
            /\ \/ call.spec.activeAt = NoTime
               \/ i.startTime <= call.spec.activeAt /\ call.spec.activeAt <= i.endTime
    IN  call.op = "Query" =>
            /\ \A i \in call.results : i \in call.before /\ passes(i)
            /\ \A i \in call.before : passes(i) => i \in call.results
            /\ intentionStore = call.before

\* A query with both filters set returned one of two stored intentions: the
\* one that ends at the time asked for, not the other user's.
C17Witness ==
    /\ call.op = "Query"
    /\ call.spec.user = "urn:alice"
    /\ call.spec.activeAt = 2
    /\ Cardinality(call.before) = 2
    /\ Cardinality(call.results) = 1
    /\ \E i \in call.results : i.endTime = 2
    /\ \E i \in call.before : i.user = "bob" /\ i.startTime <= 2 /\ i.endTime >= 2

\* ------------------------------ specification: AddMemberToGroup, concurrent

\* What AddMemberToGroup is called with: a stored group and a group the
\* store does not hold; two stored people and one the store does not hold.
GroupIdInputs == {"sg1", "sg9"}
PersonIdInputs == {"sp1", "sp2", "sp9"}

\* The frame of one call: g is the Group value read from the map, found
\* tells that the loop met personID among its members, err that the call
\* returned an error.
IdleTask ==
    [pc |-> "idle", groupID |-> NilUuid, personID |-> NilUuid,
     g |-> Group(NilUuid, "", << >>), found |-> FALSE, err |-> FALSE]

\* A goroutine calls AddMemberToGroup(groupID, personID).
MemberCall(t, groupID, personID) ==
    /\ tasks[t].pc = "idle"
    /\ tasks' = [tasks EXCEPT ![t] = [IdleTask EXCEPT !.pc = "lock",
                                         !.groupID = groupID, !.personID = personID]]
    /\ UNCHANGED <<senderVars, shareVars, wire, inbound, localVars, recVars, call, mutex>>

\* A mutant of MemberLock: the mutex is not waited for.
MemberLockNoExclusion(t) ==
    /\ tasks[t].pc = "lock"
    /\ mutex' = t
    /\ tasks' = [tasks EXCEPT ![t].pc = "read"]
    /\ UNCHANGED <<senderVars, shareVars, wire, inbound, localVars, recVars, call>>

\* s.Lock()
MemberLock(t) ==
    /\ tasks[t].pc = "lock"
    /\ mutex = NoTask
    /\ mutex' = t
    /\ tasks' = [tasks EXCEPT ![t].pc = "read"]
    /\ UNCHANGED <<senderVars, shareVars, wire, inbound, localVars, recVars, call>>

\* g, ok := s.groups[groupID]; the error return when it is not there.
MemberRead(t) ==
    /\ tasks[t].pc = "read"
    /\ tasks' = [tasks EXCEPT ![t] =
           IF Has(groupStore, tasks[t].groupID)
           THEN [@ EXCEPT !.pc = "scan", !.g = Get(groupStore, tasks[t].groupID)]
           ELSE [@ EXCEPT !.pc = "unlock", !.err = TRUE]]
    /\ UNCHANGED <<senderVars, shareVars, wire, inbound, localVars, recVars, call, mutex>>

\* The loop over g.MemberIDs: return nil when personID is among them.
MemberScan(t) ==
    /\ tasks[t].pc = "scan"
    /\ tasks' = [tasks EXCEPT ![t] =
           IF \E j \in 1..Len(tasks[t].g.memberIDs) :
                  tasks[t].g.memberIDs[j] = tasks[t].personID
           THEN [@ EXCEPT !.pc = "unlock", !.found = TRUE]
           ELSE [@ EXCEPT !.pc = "append"]]
    /\ UNCHANGED <<senderVars, shareVars, wire, inbound, localVars, recVars, call, mutex>>

\* g.MemberIDs = append(g.MemberIDs, personID); s.groups[groupID] = g
MemberAppend(t) ==
    /\ tasks[t].pc = "append"
    /\ groupStore' = StorePut(groupStore,
           [tasks[t].g EXCEPT !.memberIDs = Append(@, tasks[t].personID)])
    /\ tasks' = [tasks EXCEPT ![t].pc = "unlock"]
    /\ UNCHANGED <<intentionStore, locationStore, personStore, shareVars, wire, inbound,
                   localVars, recVars, call, mutex>>

\* The deferred s.Unlock() and the return.
MemberUnlock(t) ==
    /\ tasks[t].pc = "unlock"
    /\ mutex' = NoTask
    /\ tasks' = [tasks EXCEPT ![t].pc = "returned"]
    /\ UNCHANGED <<senderVars, shareVars, wire, inbound, localVars, recVars, call>>

\* The people store holds two people and a group created empty.
InitGroups ==
    /\ intentionStore = {}
    /\ locationStore = {}
    /\ personStore = {SenderBob, SenderCarol}
    /\ groupStore = {Group("sg1", "Friends", << >>)}
    /\ share = IdleShare
    /\ trace = NoTrace
    /\ shares = 0
    /\ nextFresh = 1
    /\ sent = NoSent
    /\ wire = NoWire
    /\ inbound = IdleInbound
    /\ localLocationStore = {}
    /\ localPersonStore = {}
    /\ rec = IdleRec
    /\ prev = NoPrev
    /\ dirty = FALSE
    /\ runs = 0
    /\ call = NoCall
    /\ tasks = [t \in 1..MaxTasks |-> IdleTask]
    /\ mutex = NoTask

NextGroups ==
    \E t \in 1..MaxTasks :
        \/ \E groupID \in GroupIdInputs, personID \in PersonIdInputs :
              MemberCall(t, groupID, personID)
        \/ MemberLock(t)
        \/ MemberRead(t)
        \/ MemberScan(t)
        \/ MemberAppend(t)
        \/ MemberUnlock(t)

SpecGroups == InitGroups /\ [][NextGroups]_vars

\* ------------------------------------------- claims: AddMemberToGroup

\* C18: under every interleaving of concurrent AddMemberToGroup calls no
\* group ever lists a member twice, every call that returned nil has its
\* person among the members of its group, and a call that finds its person
\* already listed leaves the group as it read it.
C18AtomicIdempotent ==
    /\ \A g \in groupStore :
          \A i, j \in 1..Len(g.memberIDs) : i # j => g.memberIDs[i] # g.memberIDs[j]
    /\ \A t \in DOMAIN tasks :
          /\ (tasks[t].pc = "returned" /\ ~tasks[t].err) =>
                /\ Has(groupStore, tasks[t].groupID)
                /\ \E j \in 1..Len(Get(groupStore, tasks[t].groupID).memberIDs) :
                      Get(groupStore, tasks[t].groupID).memberIDs[j] = tasks[t].personID
          /\ (tasks[t].pc \in {"unlock", "returned"} /\ tasks[t].found) =>
                \A j \in 1..Len(tasks[t].g.memberIDs) :
                    /\ j <= Len(Get(groupStore, tasks[t].groupID).memberIDs)
                    /\ Get(groupStore, tasks[t].groupID).memberIDs[j] = tasks[t].g.memberIDs[j]
          /\ (tasks[t].pc = "unlock" /\ tasks[t].found) =>
                Get(groupStore, tasks[t].groupID) = tasks[t].g

\* Three calls have returned nil, two of them for the same person and one
\* for another: the group lists the two people once each.
C18Witness ==
    /\ DOMAIN tasks # {}
    /\ \A t \in DOMAIN tasks : tasks[t].pc = "returned" /\ ~tasks[t].err
    /\ \E t, u \in DOMAIN tasks :
          t # u /\ tasks[t].personID = tasks[u].personID /\ tasks[u].found
    /\ \E t \in DOMAIN tasks : tasks[t].personID = "sp2"
    /\ Len(Get(groupStore, "sg1").memberIDs) = 2

\* C19: AddMemberToGroup fails for a person the people store does not hold
\* and leaves the group as it was, so every member id of a group that was
\* created empty is the id of a stored person.
C19MembersAreStored ==
    /\ \A g \in groupStore :
          \A j \in 1..Len(g.memberIDs) : Has(personStore, g.memberIDs[j])
    /\ \A t \in DOMAIN tasks :
          (tasks[t].pc = "returned" /\ ~Has(personStore, tasks[t].personID)) => tasks[t].err

\* ---------------------------------- specification: the location matcher

\* The matchers LocationMatcher.Match is called on and the matcher data of
\* the local locations it is given: names and categories in two spellings,
\* coordinates absent, incomplete, or at 0, 50, 500 and more than 500
\* metres from the origin.
MatcherInputs ==
    [name : {"Cafe", "Park"}, category : {"Food", "Bar"},
     lat : {NoCoord, 0}, lon : {NoCoord, 0}]
LocalMatcherInputs ==
    [name : {"cafe", "PARK"}, category : {"food", "Bar"},
     lat : {NoCoord, 0, 30, 300, 301}, lon : {NoCoord, 0, 40, 400}]

\* m.Match(local) is called and returns.
MatchCall(m, localMatcher) ==
    /\ call' = [op |-> "Match", m |-> m, local |-> localMatcher,
                verdict |-> LocationMatch(m,
                    Location("l1", "Here", "Any", NoGlobal, localMatcher.name,
                             localMatcher.category, localMatcher.lat, localMatcher.lon,
                             "USER", "bob"))]
    /\ UNCHANGED <<senderVars, shareVars, wire, inbound, localVars, recVars, tasks, mutex>>

NextMatch ==
    \E m \in MatcherInputs, localMatcher \in LocalMatcherInputs : MatchCall(m, localMatcher)

SpecMatch == InitIntentions /\ [][NextMatch]_vars

\* C20: Match returns NONE when the names differ but for case; otherwise,
\* when both sides have both coordinates, EXACT up to 50 metres, NONE beyond
\* 500 metres and POSSIBLE between, whatever the categories; otherwise EXACT
\* when the categories are equal but for case and POSSIBLE when not.
C20MatchVerdict ==
    LET spellings == {{"Cafe", "cafe"}, {"Park", "PARK"}, {"Food", "food"}, {"Bar"}}
        same(a, b) == \E word \in spellings : a \in word /\ b \in word
        m == call.m
        l == call.local
        located == m.lat >= 0 /\ m.lon >= 0 /\ l.lat >= 0 /\ l.lon >= 0
        d2 == (m.lat - l.lat) * (m.lat - l.lat) + (m.lon - l.lon) * (m.lon - l.lon)
        reference ==
            CASE ~same(m.name, l.name) -> MatchNone
              [] same(m.name, l.name) /\ located /\ d2 <= 2500 -> MatchExact
              [] same(m.name, l.name) /\ located /\ d2 > 250000 -> MatchNone
              [] same(m.name, l.name) /\ located /\ d2 > 2500 /\ d2 <= 250000 -> MatchPossible
              [] same(m.name, l.name) /\ ~located /\ same(m.category, l.category) -> MatchExact
              [] OTHER -> MatchPossible
    IN  call.op = "Match" => call.verdict = reference

\* Match returned EXACT for two places exactly 50 metres apart whose
\* categories differ.
C20Witness ==
    /\ call.op = "Match"
    /\ call.verdict = MatchExact
    /\ call.m.lat = 0 /\ call.m.lon = 0
    /\ call.local.lat = 30 /\ call.local.lon = 40
    /\ call.m.category = "Food" /\ call.local.category = "Bar"

\* The call in `call` is a Match of two matchers with equal names, both
\* with coordinates, d metres apart (the inputs lie on a line through the
\* origin, where 30-40-50 and 300-400-500 are exact).
C21Apart(d) ==
    /\ call.op = "Match"
    /\ call.m.name = "Cafe" /\ call.local.name = "cafe"
    /\ call.m.lat = 0 /\ call.m.lon = 0
    /\ call.local.lat * 5 = d * 3 /\ call.local.lon * 5 = d * 4

\* C21 as stated: with equal names and coordinates on both sides, a distance
\* of exactly 0.05 km yields EXACT and a distance of exactly 0.5 km yields
\* NONE.
C21BoundaryAsStated ==
    /\ C21Apart(50) => call.verdict = MatchExact
    /\ C21Apart(500) => call.verdict = MatchNone

\* C21, amended: with equal names and coordinates on both sides, a distance
\* of exactly 0.05 km yields EXACT and a distance of exactly 0.5 km yields
\* POSSIBLE; NONE starts beyond 0.5 km.
C21Boundary ==
    /\ C21Apart(50) => call.verdict = MatchExact
    /\ C21Apart(500) => call.verdict = MatchPossible

\* Match returned POSSIBLE for two places exactly 500 metres apart.
C21Witness ==
    C21Apart(500) /\ call.verdict = MatchPossible

\* ------------------------------------ specification: the person matcher

\* The matchers PersonMatcher.Match is called on and the local people it is
\* given: names and handles in two spellings, handles absent or empty, and
\* local people that differ outside their matcher.
PersonMatcherInputs ==
    [name : {"Bob", "dave", "eve"}, handle : {NoHandle, "", "BOB@X", "dave@x"}]
LocalPersonMatcherInputs ==
    [name : {"bob", "Bob", "dave"}, handle : {NoHandle, "", "bob@x", "BOB@X", "dave@x"}]
LocalPersonFieldInputs ==
    [name : {"Robert", "bob"}, globalID : {NoGlobal, "g-bob"}]

\* m.Match(local) is called and returns.
PersonMatchCall(m, localMatcher, localFields) ==
    /\ call' = [op |-> "PersonMatch", m |-> m, local |-> localMatcher,
                fields |-> localFields,
                verdict |-> PersonMatch(m,
                    Person("p1", localFields.name, localFields.globalID,
                           localMatcher.name, localMatcher.handle))]
    /\ UNCHANGED <<senderVars, shareVars, wire, inbound, localVars, recVars, tasks, mutex>>

NextPersonMatch ==
    \E m \in PersonMatcherInputs, lm \in LocalPersonMatcherInputs,
       f \in LocalPersonFieldInputs :
        PersonMatchCall(m, lm, f)

SpecPersonMatch == InitIntentions /\ [][NextPersonMatch]_vars

\* C22: Match returns EXACT when both sides have a handle and the handles
\* are equal but for case, whatever the names; otherwise POSSIBLE when the
\* names are equal but for case; otherwise NONE. Every call returns one of
\* the three verdicts, decided by the two matchers alone.
C22PersonVerdict ==
    LET spellings == {{"Bob", "bob"}, {"dave"}, {"eve"}, {"BOB@X", "bob@x"}, {"dave@x"}, {""}}
        same(a, b) == \E word \in spellings : a \in word /\ b \in word
        m == call.m
        l == call.local
        handles == m.handle # "no-handle" /\ l.handle # "no-handle" /\ same(m.handle, l.handle)
        reference ==
            CASE handles -> MatchExact
              [] ~handles /\ same(m.name, l.name) -> MatchPossible
              [] OTHER -> MatchNone
    IN  call.op = "PersonMatch" => call.verdict = reference

\* Match returned EXACT for two people with different names whose handles
\* differ in case only.
C22Witness ==
    /\ call.op = "PersonMatch"
    /\ call.verdict = MatchExact
    /\ call.m.name = "dave" /\ call.local.name = "bob"
    /\ call.m.handle = "BOB@X" /\ call.local.handle = "bob@x"

\* -------------------------------------- specification: hybrid encryption

\* The plaintexts, additional authenticated data, key pairs and per-call
\* randomness Encrypt and Decrypt are called with.
PlaintextInputs == {JsonMarshal(ZeroPayload), JsonMarshal(OldPayload), JsonMarshal(EvePayload)}
AadInputs == {"", Aad("urn:alice", "bob"), Aad("bob", "urn:alice"), Aad("eve", "bob")}
KeyPairInputs == {"kA", "kB"}
FreshInputs == {1, 2}

\* crypto.Encrypt(data, aad, publicKeyPEM) is called and returns.
EncryptCall(data, aad, pair, fresh) ==
    LET out == Encrypt(data, aad, PubPEM(pair), fresh)
    IN  /\ call' = [op |-> "Encrypt", data |-> data, aad |-> aad, pair |-> pair,
                    err |-> out.err, encryptedKey |-> out.encryptedKey,
                    encryptedData |-> out.encryptedData]
        /\ UNCHANGED <<senderVars, shareVars, wire, inbound, localVars, recVars, tasks, mutex>>

\* crypto.Decrypt is called on what the last Encrypt returned, with an
\* additional authenticated data and a private key of the caller's choice;
\* the record keeps the Decrypt call made on the same output before it.
DecryptCall(aad, pair) ==
    /\ call.op \in {"Encrypt", "Decrypt"}
    /\ ~call.err \/ call.op = "Decrypt"
    /\ LET sealed == IF call.op = "Encrypt" THEN call ELSE call.sealed
           before == IF call.op = "Encrypt" THEN NoCall
                     ELSE [op |-> "Decrypt", aad |-> call.aad, pair |-> call.pair,
                           err |-> call.err, plaintext |-> call.plaintext]
           out == Decrypt(sealed.encryptedKey, sealed.encryptedData, aad, PrivPEM(pair))
       IN  call' = [op |-> "Decrypt", sealed |-> sealed, before |-> before,
                    aad |-> aad, pair |-> pair,
                    err |-> out.err, plaintext |-> out.plaintext]
    /\ UNCHANGED <<senderVars, shareVars, wire, inbound, localVars, recVars, tasks, mutex>>

NextCrypto ==
    \/ \E data \in PlaintextInputs, aad \in AadInputs, pair \in KeyPairInputs,
          fresh \in FreshInputs : EncryptCall(data, aad, pair, fresh)
    \/ \E aad \in AadInputs, pair \in KeyPairInputs : DecryptCall(aad, pair)

SpecCrypto == InitIntentions /\ [][NextCrypto]_vars

\* C23: decrypting what Encrypt returned, with the private key of the pair
\* it encrypted to, returns the plaintext when the additional authenticated
\* data is the one given to Encrypt, and fails without a plaintext when it
\* is any other.
C23RoundTrip ==
    (call.op = "Decrypt" /\ call.pair = call.sealed.pair) =>
        /\ call.aad = call.sealed.aad =>
                ~call.err /\ call.plaintext = call.sealed.data
        /\ call.aad # call.sealed.aad =>
                call.err /\ call.plaintext \notin PlaintextInputs

\* Both halves happened on one output of Encrypt: a decryption that
\* returned the plaintext, then one under the same key that failed on a
\* different additional authenticated data.
C23Witness ==
    /\ call.op = "Decrypt"
    /\ call.sealed.data = JsonMarshal(OldPayload)
    /\ call.sealed.aad = Aad("urn:alice", "bob")
    /\ call.before.op = "Decrypt"
    /\ call.before.pair = call.sealed.pair
    /\ call.before.aad = call.sealed.aad
    /\ ~call.before.err /\ call.before.plaintext = call.sealed.data
    /\ call.pair = call.sealed.pair
    /\ call.aad = Aad("bob", "urn:alice")
    /\ call.err

\* ------------------------------------- specification: JSON of a payload

\* The payloads that are encoded and decoded: intentions with no target,
\* one target of either variant or both, and maps with and without entries.
JsonPayloadInputs ==
    {SharedPayload(Intention(id, "urn:alice", action, targets, 1, 2), locations, people,
                   groups) :
        id \in {"i1", "i2"}, action \in {"Get Coffee", "Meet"},
        targets \in {<< >>, <<LocationTarget("sl1")>>,
                     <<ProximityTarget(<<"sp1">>, <<"sg1">>)>>,
                     <<LocationTarget("sl1"), ProximityTarget(<<"sp1", "sp2">>, << >>)>>},
        locations \in {EmptyMap, ById({SenderCafe})},
        people \in {EmptyMap, ById({SenderBob}), ById({SenderBob, SenderCarol})},
        groups \in {EmptyMap, ById({SenderFriends})}}

\* json.Marshal of a payload followed by json.Unmarshal of the bytes into a
\* new SharedPayload.
JsonRoundTrip(payload) ==
    LET bytes == JsonMarshal(payload)
        out == JsonUnmarshal(bytes)
    IN  /\ call' = [op |-> "JsonRoundTrip", payload |-> payload, bytes |-> bytes,
                    err |-> out.err, decoded |-> out.payload]
        /\ UNCHANGED <<senderVars, shareVars, wire, inbound, localVars, recVars, tasks,
                       mutex>>

NextJson == \E payload \in JsonPayloadInputs : JsonRoundTrip(payload)

SpecJson == InitIntentions /\ [][NextJson]_vars

\* C24: a payload whose intention has location and proximity targets is
\* decoded from its own encoding without error, with every target back as
\* the same variant with the same ids and the three maps back with the same
\* keys and entities.
C24JsonRoundTrip ==
    (call.op = "JsonRoundTrip" /\ Len(call.payload.intention.targets) > 0) =>
        /\ ~call.err
        /\ Len(call.decoded.intention.targets) = Len(call.payload.intention.targets)
        /\ \A i \in 1..Len(call.payload.intention.targets) :
                /\ call.decoded.intention.targets[i].type
                        = call.payload.intention.targets[i].type
                /\ call.decoded.intention.targets[i] = call.payload.intention.targets[i]
        /\ call.decoded.locations = call.payload.locations
        /\ call.decoded.people = call.payload.people
        /\ call.decoded.groups = call.payload.groups

\* ------------------------- specification: ShareIntention called concurrently

\* What the callers pass to ShareIntention: each sender signs with its own
\* key; "mallory" has no usable public key and "i9" is no stored intention.
CallerInputs ==
    [senderID : {"urn:alice"}, recipientID : {"bob", "eve", "mallory"},
     intentionID : {"i1", "i2", "i9"}, privateKeyPEM : {PrivPEM("kA")}]
    \cup [senderID : {"eve"}, recipientID : {"bob", "mallory"},
          intentionID : {"i1", "i2"}, privateKeyPEM : {PrivPEM("kE")}]

\* The frame of one ShareIntention call: its arguments, its locals and what
\* it has called so far. ctx is the context it was given; cancelledAt is the
\* place the call was at when the context was cancelled.
IdleCaller ==
    [pc |-> "idle", ctx |-> "live", cancelledAt |-> "",
     senderID |-> "", recipientID |-> "", intentionID |-> NilUuid,
     privateKeyPEM |-> BadPEM, payloadBytes |-> NotJson, recipientPubKey |-> BadPEM,
     encryptedKey |-> NoKey, encryptedData |-> NoData, signature |-> NoSignature,
     err |-> "", ops |-> << >>, keyIds |-> << >>, envelopes |-> << >>]

\* The frame of caller t changes to f.
CallerStep(t, f) ==
    /\ tasks' = [tasks EXCEPT ![t] = f]
    /\ UNCHANGED <<senderVars, shareVars, wire, inbound, localVars, recVars, call, mutex>>

\* The frame of a call that returns error e ("" is nil) after calling op.
CallerReturn(f, op, e) ==
    [f EXCEPT !.pc = "returned", !.err = e, !.ops = Append(f.ops, op)]

\* Goroutine t calls ShareIntention with a context that is live or has been
\* cancelled already.
CallerCall(t, in, ctx) ==
    /\ tasks[t].pc = "idle"
    /\ CallerStep(t, [IdleCaller EXCEPT !.pc = "build", !.ctx = ctx,
                          !.cancelledAt = IF ctx = "cancelled" THEN "call" ELSE "",
                          !.senderID = in.senderID, !.recipientID = in.recipientID,
                          !.intentionID = in.intentionID,
                          !.privateKeyPEM = in.privateKeyPEM])

\* The context of call t is cancelled while the call is running.
CallerCancel(t) ==
    /\ tasks[t].pc \in {"build", "getkey", "encrypt", "sign", "send"}
    /\ tasks[t].ctx = "live"
    /\ CallerStep(t, [tasks[t] EXCEPT !.ctx = "cancelled", !.cancelledAt = tasks[t].pc])

\* 1. buildSharedPayload and json.Marshal. The in-memory stores take the
\* context and do not look at it.
CallerBuild(t) ==
    /\ tasks[t].pc = "build"
    /\ LET built == BuildSharedPayload(tasks[t].intentionID)
       IN  CallerStep(t, IF built.err THEN CallerReturn(tasks[t], "build", "build")
                         ELSE [tasks[t] EXCEPT !.pc = "getkey",
                                   !.ops = Append(tasks[t].ops, "build"),
                                   !.payloadBytes = JsonMarshal(built.payload)])

\* 2. KeyClient.GetKey(ctx, recipientID): the request is made under the
\* context, so it fails when the context is cancelled; otherwise the
\* service answers or fails to.
CallerGetKey(t) ==
    /\ tasks[t].pc = "getkey"
    /\ LET f == [tasks[t] EXCEPT !.keyIds = Append(tasks[t].keyIds, tasks[t].recipientID)]
           got == GetKey(f.recipientID)
       IN  IF f.ctx = "cancelled"
           THEN CallerStep(t, CallerReturn(f, "GetKey", "cancelled"))
           ELSE \E answered \in BOOLEAN :
                   CallerStep(t, IF answered /\ ~got.err
                                 THEN [f EXCEPT !.pc = "encrypt",
                                          !.ops = Append(f.ops, "GetKey"),
                                          !.recipientPubKey = got.key]
                                 ELSE CallerReturn(f, "GetKey", "getkey"))

\* A mutant of CallerEncrypt: the recipient's key is a field of the App, and
\* the call encrypts to the key another call has fetched when there is one.
CallerEncryptSharedKey(t) ==
    /\ tasks[t].pc = "encrypt"
    /\ LET aad == Aad(tasks[t].senderID, tasks[t].recipientID)
           others == {u \in DOMAIN tasks : u # t /\ tasks[u].recipientPubKey # BadPEM}
           key == IF others = {} THEN tasks[t].recipientPubKey
                  ELSE tasks[CHOOSE u \in others : TRUE].recipientPubKey
           enc == Encrypt(tasks[t].payloadBytes, aad, key, nextFresh)
       IN  /\ tasks' = [tasks EXCEPT ![t] =
                            IF enc.err THEN CallerReturn(tasks[t], "Encrypt", "encrypt")
                            ELSE [tasks[t] EXCEPT !.pc = "sign",
                                      !.ops = Append(tasks[t].ops, "Encrypt"),
                                      !.encryptedKey = enc.encryptedKey,
                                      !.encryptedData = enc.encryptedData]]
           /\ nextFresh' = nextFresh + 1
    /\ UNCHANGED <<senderVars, share, trace, shares, sent, wire, inbound, localVars,
                   recVars, call, mutex>>

\* 3. crypto.Encrypt with the AAD of the header, under randomness of its own.
CallerEncrypt(t) ==
    /\ tasks[t].pc = "encrypt"
    /\ LET aad == Aad(tasks[t].senderID, tasks[t].recipientID)
           enc == Encrypt(tasks[t].payloadBytes, aad, tasks[t].recipientPubKey, nextFresh)
       IN  /\ tasks' = [tasks EXCEPT ![t] =
                            IF enc.err THEN CallerReturn(tasks[t], "Encrypt", "encrypt")
                            ELSE [tasks[t] EXCEPT !.pc = "sign",
                                      !.ops = Append(tasks[t].ops, "Encrypt"),
                                      !.encryptedKey = enc.encryptedKey,
                                      !.encryptedData = enc.encryptedData]]
           /\ nextFresh' = nextFresh + 1
    /\ UNCHANGED <<senderVars, share, trace, shares, sent, wire, inbound, localVars,
                   recVars, call, mutex>>

\* 3. crypto.Sign over the encrypted data.
CallerSign(t) ==
    /\ tasks[t].pc = "sign"
    /\ LET sig == Sign(tasks[t].encryptedData, tasks[t].privateKeyPEM)
       IN  CallerStep(t, IF sig.err THEN CallerReturn(tasks[t], "Sign", "sign")
                         ELSE [tasks[t] EXCEPT !.pc = "send",
                                   !.ops = Append(tasks[t].ops, "Sign"),
                                   !.signature = sig.signature])

\* 4. The envelope is assembled and RouteClient.Send(ctx, envelope) is
\* called: the request fails when the context is cancelled; otherwise the
\* relay accepts the envelope or the call fails.
CallerSend(t) ==
    /\ tasks[t].pc = "send"
    /\ LET envelope == SecureEnvelope(tasks[t].senderID, tasks[t].recipientID,
                           tasks[t].encryptedKey, tasks[t].encryptedData,
                           tasks[t].signature)
           f == [tasks[t] EXCEPT !.envelopes = Append(tasks[t].envelopes, envelope)]
       IN  IF f.ctx = "cancelled"
           THEN CallerStep(t, CallerReturn(f, "Send", "cancelled"))
           ELSE \E accepted \in BOOLEAN :
                   CallerStep(t, CallerReturn(f, "Send", IF accepted THEN "" ELSE "send"))

InitCallers ==
    /\ intentionStore = SenderIntentions
    /\ locationStore = {SenderCafe, SenderPark}
    /\ personStore = {SenderBob, SenderCarol}
    /\ groupStore = {SenderFriends}
    /\ share = IdleShare
    /\ trace = NoTrace
    /\ shares = 0
    /\ nextFresh = 1
    /\ sent = NoSent
    /\ wire = NoWire
    /\ inbound = IdleInbound
    /\ localLocationStore = {}
    /\ localPersonStore = {}
    /\ rec = IdleRec
    /\ prev = NoPrev
    /\ dirty = FALSE
    /\ runs = 0
    /\ call = NoCall
    /\ tasks = [t \in 1..MaxCallers |-> IdleCaller]
    /\ mutex = NoTask

\* The steps every ShareIntention call takes.
CallerSteps(t) ==
    \/ CallerBuild(t)
    \/ CallerGetKey(t)
    \/ CallerEncrypt(t)
    \/ CallerSign(t)
    \/ CallerSend(t)

\* --------------------------- specification: ShareIntention and cancellation

NextCancel ==
    \E t \in 1..MaxCallers :
        \/ \E in \in CallerInputs, ctx \in {"live", "cancelled"} : CallerCall(t, in, ctx)
        \/ CallerCancel(t)
        \/ CallerSteps(t)

SpecCancel == InitCallers /\ [][NextCancel]_vars

\* C25: a ShareIntention call whose context was cancelled before the call,
\* or during it before Send was started, returns a cancellation error and
\* has not called Send; the stores are as they were.
C25CancelledBeforeSend ==
    \A t \in DOMAIN tasks :
        (tasks[t].pc = "returned" /\ tasks[t].cancelledAt # "") =>
            /\ tasks[t].err = "cancelled"
            /\ \A i \in 1..Len(tasks[t].ops) : tasks[t].ops[i] # "Send"
            /\ tasks[t].envelopes = << >>
            /\ intentionStore = SenderIntentions
            /\ locationStore = {SenderCafe, SenderPark}
            /\ personStore = {SenderBob, SenderCarol}
            /\ groupStore = {SenderFriends}

\* --------------------------- specification: concurrent ShareIntention calls

NextCallers ==
    \E t \in 1..MaxCallers :
        \/ \E in \in CallerInputs : CallerCall(t, in, "live")
        \/ CallerSteps(t)

SpecCallers == InitCallers /\ [][NextCallers]_vars

\* C26: under every interleaving of concurrent ShareIntention calls, what a
\* call holds and what it hands to Send is its own: the key is the one
\* stored for its recipient, the payload is the one built for its
\* intention, and the envelope carries its two ids, is wrapped for its
\* recipient's key pair and sealed with the AAD of its header around its
\* payload, signed with its sender's key.
C26CallsIndependent ==
    \A t \in DOMAIN tasks :
        LET f == tasks[t]
            own == JsonMarshal(BuildSharedPayload(f.intentionID).payload)
        IN  /\ f.recipientPubKey \in {BadPEM, GetKey(f.recipientID).key}
            /\ f.payloadBytes \in {NotJson, own}
            /\ \A i \in 1..Len(f.keyIds) : f.keyIds[i] = f.recipientID
            /\ \A i \in 1..Len(f.envelopes) :
                  LET e == f.envelopes[i]
                  IN  /\ e.senderID = f.senderID
                      /\ e.recipientID = f.recipientID
                      /\ e.encryptedSymmetricKey.pair = GetKey(f.recipientID).key.pair
                      /\ e.encryptedSymmetricKey.key = e.encryptedData.key
                      /\ e.encryptedData.aad = Aad(f.senderID, f.recipientID)
                      /\ e.encryptedData.pt = own
                      /\ e.signature = Sign(e.encryptedData, f.privateKeyPEM).signature
                      /\ \A u \in DOMAIN tasks : \A j \in 1..Len(tasks[u].envelopes) :
                            u # t => tasks[u].envelopes[j].encryptedData.key
                                        # e.encryptedData.key

\* Two calls with different senders, recipients and intentions have both
\* handed an envelope to Send and returned nil, and their steps were
\* interleaved: the second caller drew its AES key before the first.
C26Witness ==
    /\ tasks[1].pc = "returned" /\ tasks[2].pc = "returned"
    /\ tasks[1].err = "" /\ tasks[2].err = ""
    /\ Len(tasks[1].envelopes) = 1 /\ Len(tasks[2].envelopes) = 1
    /\ tasks[1].senderID = "urn:alice" /\ tasks[2].senderID = "eve"
    /\ tasks[1].recipientID = "eve" /\ tasks[2].recipientID = "bob"
    /\ tasks[1].intentionID = "i1" /\ tasks[2].intentionID = "i2"
    /\ tasks[2].encryptedData.nonce < tasks[1].encryptedData.nonce

\* ------------------------------------------------- claims: confidentiality

\* C27: GetKey is given the recipient's id only, and every envelope given to
\* Send holds the two ids of the call, the AES key wrapped for the
\* recipient's key pair, the sealed data and a signature over the sealed
\* data: no field is the payload bytes or the sender's private key, and the
\* stores are as they were, without the key.
C27NothingInTheClear ==
    /\ \A i \in 1..Len(trace.keyIds) : trace.keyIds[i] = share.recipientID
    /\ \A i \in 1..Len(trace.envelopes) :
          LET e == trace.envelopes[i]
              secrets == {share.payloadBytes, share.privateKeyPEM}
          IN  /\ DOMAIN e = {"senderID", "recipientID", "encryptedSymmetricKey",
                             "encryptedData", "signature"}
              /\ e.senderID = share.senderID
              /\ e.recipientID = share.recipientID
              /\ e.encryptedSymmetricKey \notin secrets
              /\ e.encryptedData \notin secrets
              /\ e.signature \notin secrets
              /\ DOMAIN e.encryptedSymmetricKey = DOMAIN NoKey
              /\ DOMAIN e.encryptedData = DOMAIN NoData
              /\ DOMAIN e.signature = DOMAIN NoSignature
              /\ e.encryptedSymmetricKey.pair = GetKey(share.recipientID).key.pair
              /\ e.encryptedSymmetricKey.key = e.encryptedData.key
              /\ e.signature.msg = e.encryptedData
    /\ intentionStore = SenderIntentions
    /\ locationStore = {SenderCafe, SenderPark}
    /\ personStore = {SenderBob, SenderCarol}
    /\ groupStore = {SenderFriends}

\* A call has handed Send an envelope that seals a payload with both kinds
\* of target, signed with the sender's private key.
C27Witness ==
    /\ share.pc = "returned"
    /\ share.intentionID = "i2"
    /\ share.privateKeyPEM = PrivPEM("kA")
    /\ Len(trace.envelopes) = 1
    /\ trace.envelopes[1].encryptedData.pt = share.payloadBytes
    /\ share.payloadBytes.json

\* ------------------------------------ specification: the location service

\* The ids uuid.New() returns, in order.
NewLocationIds == <<"l1", "l2", "l3", "l4">>

\* Service.AddUserLocation(userID, name, category): the location and the
\* store's Add, which always returns nil.
AddUserLocation(userID, name, category) ==
    /\ Cardinality(locationStore) < MaxLocations
    /\ LET loc == Location(NewLocationIds[Cardinality(locationStore) + 1], name, category,
                           NoGlobal, name, category, NoCoord, NoCoord, "USER", userID)
       IN  /\ locationStore' = StorePut(locationStore, loc)
           /\ call' = [op |-> "AddUserLocation", userID |-> userID, name |-> name,
                       category |-> category, result |-> loc, err |-> FALSE]
    /\ UNCHANGED <<intentionStore, personStore, groupStore, shareVars, wire, inbound,
                   localVars, recVars, tasks, mutex>>

\* A mutant of AddSharedLocation: the location gets a pointer to an empty
\* user id in place of nil.
AddSharedLocationOwned(name, category) ==
    /\ Cardinality(locationStore) < MaxLocations
    /\ LET loc == Location(NewLocationIds[Cardinality(locationStore) + 1], name, category,
                           NoGlobal, name, category, NoCoord, NoCoord, "SHARED", "")
       IN  /\ locationStore' = StorePut(locationStore, loc)
           /\ call' = [op |-> "AddSharedLocation", userID |-> NoUser, name |-> name,
                       category |-> category, result |-> loc, err |-> FALSE]
    /\ UNCHANGED <<intentionStore, personStore, groupStore, shareVars, wire, inbound,
                   localVars, recVars, tasks, mutex>>

\* Service.AddSharedLocation(name, category).
AddSharedLocation(name, category) ==
    /\ Cardinality(locationStore) < MaxLocations
    /\ LET loc == Location(NewLocationIds[Cardinality(locationStore) + 1], name, category,
                           NoGlobal, name, category, NoCoord, NoCoord, "SHARED", NoUser)
       IN  /\ locationStore' = StorePut(locationStore, loc)
           /\ call' = [op |-> "AddSharedLocation", userID |-> NoUser, name |-> name,
                       category |-> category, result |-> loc, err |-> FALSE]
    /\ UNCHANGED <<intentionStore, personStore, groupStore, shareVars, wire, inbound,
                   localVars, recVars, tasks, mutex>>

InitLocations ==
    /\ intentionStore = {}
    /\ locationStore = {}
    /\ personStore = {}
    /\ groupStore = {}
    /\ share = IdleShare
    /\ trace = NoTrace
    /\ shares = 0
    /\ nextFresh = 1
    /\ sent = NoSent
    /\ wire = NoWire
    /\ inbound = IdleInbound
    /\ localLocationStore = {}
    /\ localPersonStore = {}
    /\ rec = IdleRec
    /\ prev = NoPrev
    /\ dirty = FALSE
    /\ runs = 0
    /\ call = NoCall
    /\ tasks = NoTasks
    /\ mutex = NoTask

\* The callers pass two names and two categories; a user id may be empty.
NextLocations ==
    \/ \E userID \in {"", "urn:alice", "eve"}, name \in {"Cafe", "Park"},
          category \in {"Food", "Rec"} : AddUserLocation(userID, name, category)
    \/ \E name \in {"Cafe", "Park"}, category \in {"Food", "Rec"} :
          AddSharedLocation(name, category)

SpecLocations == InitLocations /\ [][NextLocations]_vars

\* C28: AddUserLocation returns and stores a location of type USER owned by
\* the given user, AddSharedLocation one of type SHARED with no owner; its
\* matcher has its name and category; and every stored location is USER
\* with an owner or SHARED without one, its matcher agreeing with it.
C28TypeInvariant ==
    /\ call.op = "AddUserLocation" =>
          /\ call.result.type = "USER"
          /\ call.result.userID = call.userID /\ call.result.userID # "no-user"
    /\ call.op = "AddSharedLocation" =>
          /\ call.result.type = "SHARED"
          /\ call.result.userID = "no-user"
    /\ call.op \in {"AddUserLocation", "AddSharedLocation"} =>
          /\ ~call.err
          /\ call.result \in locationStore
          /\ call.result.name = call.name /\ call.result.category = call.category
    /\ \A loc \in locationStore :
          /\ loc.type \in {"USER", "SHARED"}
          /\ loc.type = "USER" => loc.userID # "no-user"
          /\ loc.type = "SHARED" => loc.userID = "no-user"
          /\ loc.matcher.name = loc.name
          /\ loc.matcher.category = loc.category

\* A store that holds one location of each type, the shared one added last.
C28Witness ==
    /\ call.op = "AddSharedLocation"
    /\ \E a, b \in locationStore :
          /\ a.type = "USER" /\ a.userID = "urn:alice" /\ a.id = "l1"
          /\ b.type = "SHARED" /\ b.userID = "no-user" /\ b = call.result

\* ------------------------------------------- claims: the matcher phase

\* C29: while ProcessPayload runs, every incoming location or person already
\* handled whose global id no local entity holds (or that has none) is
\* mapped to a local entity that matches EXACT when the listing has one,
\* wherever it stands in the listing, and otherwise to the first one in the
\* listing that matches POSSIBLE when it has one.
C29ExactBeatsPossible ==
    LET held(store, g) == IF g = NoGlobal THEN {} ELSE FindByGlobalID(store, g)
        ok(mappings, id, locals, verdict) ==
            LET exact == {j \in 1..Len(locals) : verdict[j] = MatchExact}
                possible == {j \in 1..Len(locals) : verdict[j] = MatchPossible}
            IN  /\ exact # {} =>
                      /\ id \in DOMAIN mappings
                      /\ \E j \in exact : mappings[id] = locals[j].id
                /\ (exact = {} /\ possible # {}) =>
                      /\ id \in DOMAIN mappings
                      /\ \E j \in possible :
                            /\ mappings[id] = locals[j].id
                            /\ \A h \in possible : j <= h
    IN  /\ rec.pc = "locations" =>
              \A key \in (DOMAIN rec.payload.locations) \ rec.todoLocations :
                  LET incoming == rec.payload.locations[key]
                  IN  held(localLocationStore, incoming.globalID) = {} =>
                          ok(rec.result.locationMappings, UuidParse(key), rec.localLocations,
                             [j \in 1..Len(rec.localLocations) |->
                                 LocationMatch(incoming.matcher, rec.localLocations[j])])
        /\ rec.pc = "people" =>
              \A key \in (DOMAIN rec.payload.people) \ rec.todoPeople :
                  LET incoming == rec.payload.people[key]
                  IN  held(localPersonStore, incoming.globalID) = {} =>
                          ok(rec.result.personMappings, UuidParse(key), rec.localPeople,
                             [j \in 1..Len(rec.localPeople) |->
                                 PersonMatch(incoming.matcher, rec.localPeople[j])])

\* The store listed a POSSIBLE location before an EXACT one and the incoming
\* cafe was mapped to the EXACT one.
C29Witness ==
    /\ rec.pc = "locations"
    /\ UuidString("f2") \in (DOMAIN rec.payload.locations) \ rec.todoLocations
    /\ Len(rec.localLocations) = 2
    /\ rec.localLocations[1].id = "l4" /\ rec.localLocations[2].id = "l3"
    /\ LocationMatch(ForeignF2.matcher, rec.localLocations[1]) = MatchPossible
    /\ LocationMatch(ForeignF2.matcher, rec.localLocations[2]) = MatchExact
    /\ "f2" \in DOMAIN rec.result.locationMappings
    /\ rec.result.locationMappings["f2"] = "l3"

\* ------------------- specification: the reconciler over a store that fails

\* The store calls of the running ProcessPayload that returned an error:
\* the listings ("locations", "people") and the payload keys whose
\* FindByGlobalID failed.
NoFailures == [op |-> "failures", lists |-> {}, finds |-> {}]
Failures == IF call.op = "failures" THEN call ELSE NoFailures

\* localLocations, _ := ListAllForMatching(ctx) when the store returns
\* (nil, err): the error is dropped and the list is empty.
RecListLocationsFailed ==
    /\ rec.pc = "listLocations"
    /\ rec' = [rec EXCEPT !.pc = "locations", !.localLocations = << >>,
                          !.todoLocations = DOMAIN rec.payload.locations]
    /\ call' = [Failures EXCEPT !.lists = @ \cup {"locations"}]
    /\ UNCHANGED <<senderVars, tasks, mutex, shareVars, wire, inbound, localVars, prev,
                   dirty, runs>>

\* One turn of the loop over payload.Locations in which FindByGlobalID
\* returns an error that is not "not found": err == nil is false, and the
\* matcher loop runs.
RecLocationFindFailed ==
    /\ rec.pc = "locations"
    /\ \E key \in rec.todoLocations :
          LET incoming == rec.payload.locations[key]
              senderID == UuidParse(key)
              finalMatchID == ReconcileLocation(incoming, NoMatch, rec.localLocations)
          IN  /\ incoming.globalID # NoGlobal
              /\ rec' = [rec EXCEPT
                     !.todoLocations = @ \ {key},
                     !.result.locationMappings =
                         IF finalMatchID # NoMatch
                         THEN Put(@, senderID, finalMatchID) ELSE @]
              /\ call' = [Failures EXCEPT !.finds = @ \cup {key}]
    /\ UNCHANGED <<senderVars, tasks, mutex, shareVars, wire, inbound, localVars, prev,
                   dirty, runs>>

\* A mutant of RecListPeopleFailed: the error of the listing is returned.
RecListPeopleFailedReturning ==
    /\ rec.pc = "locations" /\ rec.todoLocations = {}
    /\ rec' = [rec EXCEPT !.pc = "failed", !.localLocations = << >>,
                          !.result = NoResult]
    /\ call' = [Failures EXCEPT !.lists = @ \cup {"people"}]
    /\ UNCHANGED <<senderVars, tasks, mutex, shareVars, wire, inbound, localVars, prev,
                   dirty, runs>>

\* localPeople, _ := ListAllForMatching(ctx) when the store returns (nil, err).
RecListPeopleFailed ==
    /\ rec.pc = "locations" /\ rec.todoLocations = {}
    /\ rec' = [rec EXCEPT !.pc = "people", !.localLocations = << >>,
                          !.localPeople = << >>,
                          !.todoPeople = DOMAIN rec.payload.people]
    /\ call' = [Failures EXCEPT !.lists = @ \cup {"people"}]
    /\ UNCHANGED <<senderVars, tasks, mutex, shareVars, wire, inbound, localVars, prev,
                   dirty, runs>>

\* One turn of the loop over payload.People in which FindByGlobalID fails.
RecPersonFindFailed ==
    /\ rec.pc = "people"
    /\ \E key \in rec.todoPeople :
          LET incoming == rec.payload.people[key]
              senderID == UuidParse(key)
              finalMatchID == ReconcilePerson(incoming, NoMatch, rec.localPeople)
          IN  /\ incoming.globalID # NoGlobal
              /\ rec' = [rec EXCEPT
                     !.todoPeople = @ \ {key},
                     !.result.personMappings =
                         IF finalMatchID # NoMatch
                         THEN Put(@, senderID, finalMatchID) ELSE @]
              /\ call' = [Failures EXCEPT !.finds = @ \cup {key}]
    /\ UNCHANGED <<senderVars, tasks, mutex, shareVars, wire, inbound, localVars, prev,
                   dirty, runs>>

NextFailing ==
    \/ \E loc \in LocalLocationInputs : rec.pc = "idle" /\ AddLocalLocation(loc)
    \/ \E p \in LocalPersonInputs : rec.pc = "idle" /\ AddLocalPerson(p)
    \/ \E payload \in ReconPayloads : runs = 0 /\ ProcessPayloadCall(payload)
    \/ RecListLocations
    \/ RecListLocationsFailed
    \/ RecLocation
    \/ RecLocationFindFailed
    \/ RecListPeople
    \/ RecListPeopleFailed
    \/ RecPerson
    \/ RecPersonFindFailed
    \/ RecReturn

SpecFailing == InitRecon /\ [][NextFailing]_vars

\* C30: ProcessPayload has no error exit. A listing that failed leaves the
\* call with an empty list of local entities; an incoming entity whose
\* FindByGlobalID failed is mapped as the matcher phase maps it, to an EXACT
\* local entity of the listing when there is one, otherwise to a POSSIBLE
\* one, otherwise not at all; and the call returns a MappingResult over
\* the payload's ids in which, after a failed listing, only global-id
\* lookups that succeeded have made a mapping.
C30NoErrorExit ==
    LET matched(mappings, id, locals, verdict) ==
            LET exact == {j \in 1..Len(locals) : verdict[j] = MatchExact}
                possible == {j \in 1..Len(locals) : verdict[j] = MatchPossible}
            IN  IF exact # {} THEN id \in DOMAIN mappings
                                   /\ \E j \in exact : mappings[id] = locals[j].id
                ELSE IF possible # {} THEN id \in DOMAIN mappings
                                   /\ \E j \in possible : mappings[id] = locals[j].id
                ELSE id \notin DOMAIN mappings
        byGlobalID(mappings, payloadMap, store) ==
            \A key \in DOMAIN payloadMap :
                UuidParse(key) \in DOMAIN mappings =>
                    /\ key \notin Failures.finds
                    /\ payloadMap[key].globalID # NoGlobal
                    /\ \E e \in FindByGlobalID(store, payloadMap[key].globalID) :
                          mappings[UuidParse(key)] = e.id
    IN  /\ rec.pc \in {"idle", "listLocations", "locations", "people", "done"}
        /\ rec.pc = "locations" =>
              /\ "locations" \in Failures.lists => rec.localLocations = << >>
              /\ \A key \in ((DOMAIN rec.payload.locations) \ rec.todoLocations)
                                \cap Failures.finds :
                    matched(rec.result.locationMappings, UuidParse(key), rec.localLocations,
                            [j \in 1..Len(rec.localLocations) |->
                                LocationMatch(rec.payload.locations[key].matcher,
                                              rec.localLocations[j])])
        /\ rec.pc = "people" =>
              /\ "people" \in Failures.lists => rec.localPeople = << >>
              /\ \A key \in ((DOMAIN rec.payload.people) \ rec.todoPeople)
                                \cap Failures.finds :
                    matched(rec.result.personMappings, UuidParse(key), rec.localPeople,
                            [j \in 1..Len(rec.localPeople) |->
                                PersonMatch(rec.payload.people[key].matcher,
                                            rec.localPeople[j])])
        /\ rec.pc \in {"people", "done"} =>
              /\ DOMAIN rec.result.locationMappings
                    \subseteq {UuidParse(key) : key \in DOMAIN rec.payload.locations}
              /\ "locations" \in Failures.lists =>
                    byGlobalID(rec.result.locationMappings, rec.payload.locations,
                               localLocationStore)
        /\ rec.pc = "done" =>
              /\ DOMAIN rec.result.personMappings
                    \subseteq {UuidParse(key) : key \in DOMAIN rec.payload.people}
              /\ "people" \in Failures.lists =>
                    byGlobalID(rec.result.personMappings, rec.payload.people,
                               localPersonStore)

\* A call has returned although both listings and a FindByGlobalID failed,
\* over stores that hold matching entities: the result is partial, with the
\* person found by global id and nothing else.
C30Witness ==
    /\ rec.pc = "done"
    /\ Failures.lists = {"locations", "people"}
    /\ Failures.finds = {UuidString("f1")}
    /\ \E loc \in localLocationStore : loc.globalID = "g-park"
    /\ \E p \in localPersonStore : p.globalID = "g-bob"
    /\ DOMAIN rec.result.locationMappings = {}
    /\ DOMAIN rec.result.personMappings = {"fp3"}

====
